---------------------------- MODULE Spec2Model ----------------------------
(***************************************************************************)
(* A model of deltable: the table comparator (comparison.py) and the RTF   *)
(* table loader (rtf_table.py).                                            *)
(*                                                                         *)
(* Texts are sequences of one-character strings, so that lower-casing,     *)
(* whitespace removal, concatenation and suffixing are computed and not    *)
(* assumed.  Numbers are exact: a float is a multiple of 1/FloatScale, an  *)
(* integer converts to a float by multiplication with FloatScale; the      *)
(* special floats nan, inf and -inf are values of their own.               *)
(***************************************************************************)
EXTENDS Integers, Sequences, FiniteSets, TLC

VARIABLES
    \* compare_tables: its arguments, its position, its locals, its outcome
    left, right, abs_tol, rel_tol, ignore_case, ignore_spaces,
    pc, normalized_left, normalized_right, column_position, compared, result,
    \* load_rtf_table: the rows of its document, its position, its locals,
    \* its outcome
    rows, load_pc, load_headers, load_stub_column_span, body_rows, raw_table,
    load_result,
    \* _extract_rows_from_rtf: its argument, its position, its locals, its
    \* outcome
    rtf_text, token_pc, scan_position, token_rows, token_result,
    \* the compare command: the pairs of its input, the files, whether soffice
    \* is installed, the temporary directory, its position, its locals, what
    \* it wrote
    cli_pairs, files, soffice_available, tmp_files, pair_index, cli_rows,
    cli_pc, output

compareVars == <<left, right, abs_tol, rel_tol, ignore_case, ignore_spaces,
                 pc, normalized_left, normalized_right, column_position,
                 compared, result>>

loadVars == <<rows, load_pc, load_headers, load_stub_column_span, body_rows,
              raw_table, load_result>>

tokenVars == <<rtf_text, token_pc, scan_position, token_rows, token_result>>

cliVars == <<cli_pairs, files, soffice_available, tmp_files, pair_index,
             cli_rows, cli_pc, output>>

vars == <<compareVars, loadVars, tokenVars, cliVars>>

---------------------------------------------------------------------------
(* Bounds                                                                  *)

\* The decimal places a float keeps: a float is an integer number of
\* 1/FloatScale units, and Milli units are a thousandth.
FractionDigits == 3
FloatScale == 10 ^ FractionDigits
Milli == FloatScale \div 1000
\* The longest column of an enumerated table.
MaxRows == 2
\* The widest enumerated header row.
MaxWidth == 3
\* The widest enumerated body row, and the most body rows of a document.
BodyWidth == 2
MaxBodyRows == 2
\* The most cells of an enumerated row of RTF, and the most rows of an
\* enumerated RTF document.
MaxCells == 2
MaxTokenRows == 2
\* The most pairs of an enumerated input of the compare command.
MaxPairs == 2

---------------------------------------------------------------------------
(* Values of a table cell                                                  *)

Null == [t |-> "null"]
IntVal(n) == [t |-> "int", v |-> n]
FloatVal(n) == [t |-> "float", k |-> "fin", v |-> n]
NaN == [t |-> "float", k |-> "nan", v |-> 0]
PosInf == [t |-> "float", k |-> "inf", v |-> 0]
NegInf == [t |-> "float", k |-> "ninf", v |-> 0]
TextVal(s) == [t |-> "text", s |-> s]

IsNone(value) == value.t = "null"
IsStr(value) == value.t = "text"
\* isinstance(value, (int, float)) and not isinstance(value, bool)
IsNumber(value) == value.t \in {"int", "float"}

Abs(n) == IF n < 0 THEN -n ELSE n
Max(m, n) == IF m >= n THEN m ELSE n
Min(m, n) == IF m <= n THEN m ELSE n

\* float(value) of an int or a float
to_float(value) ==
    IF value.t = "int" THEN FloatVal(value.v * FloatScale) ELSE value

isnan(x) == x.k = "nan"
isinf(x) == x.k \in {"inf", "ninf"}

\* mutant: the relative tolerance is dropped
isclose_abs_only(a, b, rel, abs) ==
    IF rel < 0 \/ abs < 0 THEN "ValueError"
    ELSE IF a = b THEN "True"
    ELSE IF isinf(a) \/ isinf(b) THEN "False"
    ELSE IF Abs(b.v - a.v) <= abs THEN "True" ELSE "False"

\* math.isclose(a, b, rel_tol=, abs_tol=): "ValueError" on a negative
\* tolerance, else whether the two floats are close.  rel_tol counts
\* 1/FloatScale units as well.
isclose(a, b, rel, abs) ==
    IF rel < 0 \/ abs < 0 THEN "ValueError"
    ELSE IF a = b THEN "True"
    ELSE IF isinf(a) \/ isinf(b) THEN "False"
    ELSE LET diff == Abs(b.v - a.v)
         IN  IF \/ diff * FloatScale <= Abs(rel * b.v)
                \/ diff * FloatScale <= Abs(rel * a.v)
                \/ diff <= abs
             THEN "True" ELSE "False"

\* mutant: NaN is close to nothing, itself included (math.isclose alone)
numbers_match_nan_unequal(left_value, right_value, abs, rel) ==
    IF isnan(left_value) \/ isnan(right_value) THEN "False"
    ELSE isclose(left_value, right_value, rel, abs)

numbers_match(left_value, right_value, abs, rel) ==
    IF isnan(left_value) /\ isnan(right_value) THEN "True"
    ELSE IF isnan(left_value) \/ isnan(right_value) THEN "False"
    ELSE isclose(left_value, right_value, rel, abs)

\* mutant: a null matches whatever it meets
values_match_null_wildcard(left_value, right_value, abs, rel) ==
    IF IsNone(left_value) \/ IsNone(right_value) THEN "True"
    ELSE IF IsNumber(left_value) /\ IsNumber(right_value)
         THEN numbers_match(to_float(left_value), to_float(right_value),
                            abs, rel)
         ELSE IF left_value = right_value THEN "True" ELSE "False"

\* mutant: a null on the left matches whatever it meets
values_match_left_null(left_value, right_value, abs, rel) ==
    IF IsNone(left_value) THEN "True"
    ELSE IF IsNone(right_value) THEN "False"
    ELSE IF IsNumber(left_value) /\ IsNumber(right_value)
         THEN numbers_match(to_float(left_value), to_float(right_value),
                            abs, rel)
         ELSE IF left_value = right_value THEN "True" ELSE "False"

values_match(left_value, right_value, abs, rel) ==
    IF IsNone(left_value) /\ IsNone(right_value) THEN "True"
    ELSE IF IsNone(left_value) \/ IsNone(right_value) THEN "False"
    ELSE IF IsNumber(left_value) /\ IsNumber(right_value)
         THEN numbers_match(to_float(left_value), to_float(right_value),
                            abs, rel)
         ELSE IF left_value = right_value THEN "True" ELSE "False"

---------------------------------------------------------------------------
(* Texts                                                                   *)

UpperToLower == [c \in {"A", "B", "G"} |->
                    CASE c = "A" -> "a" [] c = "B" -> "b" [] c = "G" -> "g"]

\* str.lower(), one character
lower_char(c) == IF c \in DOMAIN UpperToLower THEN UpperToLower[c] ELSE c

\* str.lower()
lower(s) == [i \in 1..Len(s) |-> lower_char(s[i])]

\* the code points of the whitespace characters that the texts of the model
\* hold only by name
NamedWhitespace ==
    {11, 12, 13, 28, 29, 30, 31, 133, 160, 5760, 8232, 8233, 8239, 8287,
     12288} \cup (8192..8202)

\* the name of the character of a code point
CodePointName(code_point) == "U+" \o ToString(code_point)

\* the characters \s matches and str.strip() strips
SpaceChars ==
    {" ", "\t", "\n"} \cup {CodePointName(n) : n \in NamedWhitespace}

\* a character \s matches
IsSpace(c) == c \in SpaceChars

\* WHITESPACE_PATTERN.sub("", s)
remove_whitespace(s) == SelectSeq(s, LAMBDA c : ~IsSpace(c))

\* mutant: lower-cases whether or not ignore_case is set
normalize_value_always_lower(value, case, spaces) ==
    IF ~IsStr(value) THEN value
    ELSE TextVal(IF spaces THEN remove_whitespace(lower(value.s))
                 ELSE lower(value.s))

normalize_value(value, case, spaces) ==
    IF ~IsStr(value) THEN value
    ELSE LET lowered == IF case THEN lower(value.s) ELSE value.s
         IN  TextVal(IF spaces THEN remove_whitespace(lowered) ELSE lowered)

---------------------------------------------------------------------------
(* Tables: a dict is the sequence of its items, in insertion order         *)

keys(table) == [i \in 1..Len(table) |-> table[i].name]

\* table[column]
lookup(table, column) ==
    table[CHOOSE i \in 1..Len(table) : table[i].name = column].values

normalize_string_columns(table, case, spaces) ==
    IF ~case /\ ~spaces THEN table
    ELSE [i \in 1..Len(table) |->
            [name |-> table[i].name,
             values |-> [j \in 1..Len(table[i].values) |->
                            normalize_value(table[i].values[j], case, spaces)]]]

\* mutant: the normalized values are stored into the table that was passed
normalized_in_place(table, case, spaces) ==
    normalize_string_columns(table, case, spaces)

\* The table that was passed, once _normalize_string_columns has returned:
\* line 249 copies every list and lines 251-267 fill a new dict with new
\* lists, so nothing is stored into the argument.
argument_after_normalize(table, case, spaces) == table

\* mutant: len(table), the number of columns, for the number of rows
get_row_count_of_columns(table, label) ==
    IF table = <<>> THEN [raised |-> FALSE, count |-> 0]
    ELSE LET row_counts == {Len(table[i].values) : i \in 1..Len(table)}
         IN  IF Cardinality(row_counts) # 1
             THEN [raised |-> TRUE, error |-> "ValueError", label |-> label]
             ELSE [raised |-> FALSE, count |-> Len(table)]

\* mutant: the first column's length, with no check of the others
get_row_count_unchecked(table, label) ==
    IF table = <<>> THEN [raised |-> FALSE, count |-> 0]
    ELSE [raised |-> FALSE, count |-> Len(table[1].values)]

get_row_count(table, label) ==
    IF table = <<>> THEN [raised |-> FALSE, count |-> 0]
    ELSE LET row_counts == {Len(table[i].values) : i \in 1..Len(table)}
         IN  IF Cardinality(row_counts) # 1
             THEN [raised |-> TRUE, error |-> "ValueError", label |-> label]
             ELSE [raised |-> FALSE, count |-> CHOOSE n \in row_counts : TRUE]

\* The loop of _find_first_column_mismatch from the pair at index i (1-based
\* here; the row index it reports is zero-based).  zip(strict=True) raises
\* when one side ends before the other.
RECURSIVE first_mismatch_from(_, _, _, _, _)
first_mismatch_from(left_values, right_values, abs, rel, i) ==
    IF i > Len(left_values) /\ i > Len(right_values)
    THEN [kind |-> "none", examined |-> i - 1]
    ELSE IF i > Len(left_values) \/ i > Len(right_values)
    THEN [kind |-> "raised", error |-> "ValueError", examined |-> i - 1]
    ELSE LET m == values_match(left_values[i], right_values[i], abs, rel)
         IN  IF m = "ValueError"
             THEN [kind |-> "raised", error |-> "ValueError", examined |-> i]
             ELSE IF m = "True"
             THEN first_mismatch_from(left_values, right_values, abs, rel, i + 1)
             ELSE [kind |-> "mismatch", examined |-> i,
                   row_index |-> i - 1,
                   left_value |-> left_values[i],
                   right_value |-> right_values[i]]

\* mutant: the loop runs on after a mismatch and reports the last one
find_last_column_mismatch(left_values, right_values, abs, rel) ==
    LET unequal == {i \in 1..Len(left_values) :
                      values_match(left_values[i], right_values[i], abs, rel)
                          # "True"}
        last == CHOOSE i \in unequal : \A j \in unequal : j <= i
    IN  IF unequal = {}
        THEN [kind |-> "none", examined |-> Len(left_values)]
        ELSE [kind |-> "mismatch", examined |-> Len(left_values),
              row_index |-> last - 1,
              left_value |-> left_values[last],
              right_value |-> right_values[last]]

find_first_column_mismatch(left_values, right_values, abs, rel) ==
    first_mismatch_from(left_values, right_values, abs, rel, 1)

\* mutant: the column names are compared as sets
columns_differ_unordered(left_columns, right_columns) ==
    {left_columns[i] : i \in 1..Len(left_columns)}
        # {right_columns[i] : i \in 1..Len(right_columns)}

columns_differ(left_columns, right_columns) == left_columns # right_columns

Returned(category, summary) ==
    [kind |-> "returned", category |-> category, summary |-> summary]

Raised(error, label) == [kind |-> "raised", error |-> error, label |-> label]

build_identical_summary(abs, rel, case, spaces) ==
    [what |-> "identical", abs_tol |-> abs, rel_tol |-> rel,
     ignore_case |-> case, ignore_spaces |-> spaces]

---------------------------------------------------------------------------
(* The inputs compare_tables is run on                                     *)

ColumnNames == {"A", "B"}

\* the key sequences of a dict over ColumnNames: no name twice
ColumnOrders ==
    {<<>>} \cup {<<a>> : a \in ColumnNames}
           \cup {o \in ColumnNames \X ColumnNames : o[1] # o[2]}

SeqsUpTo(S, n) == UNION {[1..k -> S] : k \in 0..n}

TablesOver(values, length) ==
    UNION {
      {[i \in 1..Len(order) |-> [name |-> order[i], values |-> cols[i]]] :
          cols \in [1..Len(order) -> SeqsUpTo(values, length)]} :
      order \in ColumnOrders}

ShapeValues == {IntVal(1), IntVal(2)}

RichValues ==
    {Null, IntVal(0), IntVal(1), IntVal(10), FloatVal(1000 * Milli),
     FloatVal(10000 * Milli), FloatVal(10005 * Milli), FloatVal(11000 * Milli),
     NaN, PosInf, NegInf,
     TextVal(<<>>), TextVal(<<" ">>), TextVal(<<"1">>),
     TextVal(<<"G", " ", "3">>), TextVal(<<"g", " ", " ", "3">>),
     TextVal(<<"g", "3">>)}

\* abs_tol: -0.001, 0, 0.001, 0.01; rel_tol: negative, 0, 0.1
AbsTols == {-Milli, 0, Milli, 10 * Milli}
RelTols == {-1, 0, FloatScale \div 10}

DefaultOptions ==
    /\ abs_tol = 0 /\ rel_tol = 0
    /\ ignore_case = FALSE /\ ignore_spaces = FALSE

AnyOptions ==
    /\ abs_tol \in AbsTols /\ rel_tol \in RelTols
    /\ ignore_case \in BOOLEAN /\ ignore_spaces \in BOOLEAN

\* tables of every shape, equal or not, consistent or not
ShapeInputs ==
    /\ left \in TablesOver(ShapeValues, MaxRows)
    /\ right \in TablesOver(ShapeValues, MaxRows)
    /\ DefaultOptions

\* small tables under every choice of options
OptionInputs ==
    /\ left \in TablesOver({IntVal(1)}, 1)
    /\ right \in TablesOver({IntVal(1)}, 1)
    /\ AnyOptions

\* one pair of values under every choice of options
ValueInputs ==
    /\ \E a, b \in RichValues :
          /\ left = <<[name |-> "A", values |-> <<a>>]>>
          /\ right = <<[name |-> "A", values |-> <<b>>]>>
    /\ AnyOptions

NoResult == [kind |-> "none"]

\* the command is not running
CliIdle ==
    /\ cli_pairs = <<>>
    /\ files = <<>>
    /\ soffice_available = FALSE
    /\ tmp_files = <<>>
    /\ pair_index = 0
    /\ cli_rows = <<>>
    /\ cli_pc = "idle"
    /\ output = NoResult

\* no document is being tokenized
TokenIdle ==
    /\ rtf_text = <<>>
    /\ token_pc = "idle"
    /\ scan_position = 0
    /\ token_rows = <<>>
    /\ token_result = NoResult

\* no document is being loaded
LoadIdle ==
    /\ rows = <<>>
    /\ load_pc = "idle"
    /\ load_headers = <<>>
    /\ load_stub_column_span = 0
    /\ body_rows = <<>>
    /\ raw_table = <<>>
    /\ load_result = NoResult

\* no tables are being compared
CompareIdle ==
    /\ left = <<>> /\ right = <<>>
    /\ abs_tol = 0 /\ rel_tol = 0
    /\ ignore_case = FALSE /\ ignore_spaces = FALSE
    /\ pc = "idle"
    /\ normalized_left = <<>>
    /\ normalized_right = <<>>
    /\ column_position = 0
    /\ compared = <<>>
    /\ result = NoResult

CompareInit ==
    /\ ShapeInputs \/ OptionInputs \/ ValueInputs
    /\ pc = "columns"
    /\ normalized_left = <<>>
    /\ normalized_right = <<>>
    /\ column_position = 0
    /\ compared = <<>>
    /\ result = NoResult
    /\ LoadIdle
    /\ TokenIdle
    /\ CliIdle

---------------------------------------------------------------------------
(* compare_tables                                                          *)

Finish(r) ==
    /\ result' = r
    /\ pc' = "done"

\* lines 55-64
CompareColumns ==
    /\ pc = "columns"
    /\ LET left_columns == keys(left)
           right_columns == keys(right)
       IN  IF columns_differ(left_columns, right_columns)
           THEN Finish(Returned("structure_differences",
                                [what |-> "columns", left |-> left_columns,
                                 right |-> right_columns]))
           ELSE /\ pc' = "row_count"
                /\ UNCHANGED result
    /\ UNCHANGED <<left, right, abs_tol, rel_tol, ignore_case, ignore_spaces,
                   normalized_left, normalized_right, column_position, compared>>

\* lines 66-75
CompareRowCounts ==
    /\ pc = "row_count"
    /\ LET left_row_count == get_row_count(left, "left")
           right_row_count == get_row_count(right, "right")
       IN  IF left_row_count.raised
           THEN Finish(Raised(left_row_count.error, left_row_count.label))
           ELSE IF right_row_count.raised
           THEN Finish(Raised(right_row_count.error, right_row_count.label))
           ELSE IF left_row_count.count # right_row_count.count
           THEN Finish(Returned("structure_differences",
                                [what |-> "row_count",
                                 left |-> left_row_count.count,
                                 right |-> right_row_count.count]))
           ELSE /\ pc' = "normalize"
                /\ UNCHANGED result
    /\ UNCHANGED <<left, right, abs_tol, rel_tol, ignore_case, ignore_spaces,
                   normalized_left, normalized_right, column_position, compared>>

\* lines 77-86
NormalizeStrings ==
    /\ pc = "normalize"
    /\ normalized_left' =
          normalize_string_columns(left, ignore_case, ignore_spaces)
    /\ normalized_right' =
          normalize_string_columns(right, ignore_case, ignore_spaces)
    /\ left' = argument_after_normalize(left, ignore_case, ignore_spaces)
    /\ right' = argument_after_normalize(right, ignore_case, ignore_spaces)
    /\ column_position' = 1
    /\ pc' = "scan"
    /\ UNCHANGED <<abs_tol, rel_tol, ignore_case, ignore_spaces,
                   compared, result>>

\* lines 88-106: one turn of the loop over left_columns
ScanColumn ==
    /\ pc = "scan"
    /\ column_position <= Len(keys(left))
    /\ LET column == keys(left)[column_position]
           mismatch == find_first_column_mismatch(
                          lookup(normalized_left, column),
                          lookup(normalized_right, column),
                          abs_tol, rel_tol)
       IN  /\ compared' = compared \o
                  [i \in 1..mismatch.examined |-> <<column, i - 1>>]
           /\ IF mismatch.kind = "raised"
              THEN /\ Finish(Raised(mismatch.error, "tolerance"))
                   /\ UNCHANGED column_position
              ELSE IF mismatch.kind = "none"
              THEN /\ column_position' = column_position + 1
                   /\ UNCHANGED <<pc, result>>
              ELSE /\ Finish(Returned("structure_differences",
                                      [what |-> "value",
                                       column |-> column,
                                       row_index |-> mismatch.row_index,
                                       left_value |-> mismatch.left_value,
                                       right_value |-> mismatch.right_value]))
                   /\ UNCHANGED column_position
    /\ UNCHANGED <<left, right, abs_tol, rel_tol, ignore_case, ignore_spaces,
                   normalized_left, normalized_right>>

\* lines 108-116
ReturnIdentical ==
    /\ pc = "scan"
    /\ column_position > Len(keys(left))
    /\ Finish(Returned("identical",
                       build_identical_summary(abs_tol, rel_tol, ignore_case,
                                               ignore_spaces)))
    /\ UNCHANGED <<left, right, abs_tol, rel_tol, ignore_case, ignore_spaces,
                   normalized_left, normalized_right, column_position, compared>>

CompareNext ==
    \/ CompareColumns /\ UNCHANGED <<loadVars, tokenVars, cliVars>>
    \/ CompareRowCounts /\ UNCHANGED <<loadVars, tokenVars, cliVars>>
    \/ NormalizeStrings /\ UNCHANGED <<loadVars, tokenVars, cliVars>>
    \/ ScanColumn /\ UNCHANGED <<loadVars, tokenVars, cliVars>>
    \/ ReturnIdentical /\ UNCHANGED <<loadVars, tokenVars, cliVars>>

SpecCompare == CompareInit /\ [][CompareNext]_vars

---------------------------------------------------------------------------
(* Strings of the loader                                                   *)

Reverse(s) == [i \in 1..Len(s) |-> s[Len(s) + 1 - i]]

RECURSIVE lstrip(_)
lstrip(s) ==
    IF s # <<>> /\ IsSpace(Head(s)) THEN lstrip(Tail(s)) ELSE s

\* str.strip()
strip(s) == Reverse(lstrip(Reverse(lstrip(s))))

Digits == <<"0", "1", "2", "3", "4", "5", "6", "7", "8", "9">>

IsDigit(c) == \E d \in 1..10 : Digits[d] = c

DigitValue(c) == (CHOOSE d \in 1..10 : Digits[d] = c) - 1

\* str(n) of an n >= 0
RECURSIVE str_int(_)
str_int(n) ==
    IF n < 10 THEN <<Digits[n + 1]>>
    ELSE str_int(n \div 10) \o <<Digits[(n % 10) + 1]>>

\* sub in s
contains(s, sub) ==
    \E i \in 0..(Len(s) - Len(sub)) : SubSeq(s, i + 1, i + Len(sub)) = sub

Separator == <<" ", "|", " ">>

\* f"column_{column_index}"
column_placeholder(column_index) ==
    <<"c", "o", "l", "u", "m", "n", "_">> \o str_int(column_index)

Repeat(x, n) == [i \in 1..n |-> x]

\* each element of s, n times in a row
RepeatEach(s, n) == [i \in 1..(Len(s) * n) |-> s[((i - 1) \div n) + 1]]

RECURSIVE Flatten(_)
Flatten(ss) == IF ss = <<>> THEN <<>> ELSE Head(ss) \o Flatten(Tail(ss))

---------------------------------------------------------------------------
(* Composite headers                                                       *)

row_texts(cells) == [i \in 1..Len(cells) |-> cells[i].text]

RECURSIVE leading_blank_count(_)
leading_blank_count(header_row_2) ==
    IF header_row_2 = <<>> \/ strip(Head(header_row_2)) # <<>> THEN 0
    ELSE 1 + leading_blank_count(Tail(header_row_2))

infer_header_stub_column_count(header_row_2) ==
    Max(1, leading_blank_count(header_row_2))

\* mutant: the group labels are appended once, never repeated
expand_header_row_no_repeat(header_row, target_length, stub_column_count) ==
    IF target_length <= 0 THEN <<>>
    ELSE IF header_row = <<>>
    THEN [index \in 1..target_length |-> column_placeholder(index)]
    ELSE IF Len(header_row) = target_length THEN header_row
    ELSE IF Len(header_row) = 1 THEN Repeat(header_row[1], target_length)
    ELSE LET filled ==
                 IF Len(header_row) < target_length
                 THEN header_row \o
                      Repeat(header_row[Len(header_row)],
                             target_length - Len(header_row))
                 ELSE header_row
         IN  SubSeq(filled, 1, target_length)

expand_header_row(header_row, target_length, stub_column_count) ==
    IF target_length <= 0 THEN <<>>
    ELSE IF header_row = <<>>
    THEN [index \in 1..target_length |-> column_placeholder(index)]
    ELSE IF Len(header_row) = target_length THEN header_row
    ELSE IF Len(header_row) = 1 THEN Repeat(header_row[1], target_length)
    ELSE LET stub == Min(stub_column_count,
                         Min(Len(header_row), target_length))
             stub_columns == SubSeq(header_row, 1, stub)
             grouped_columns == SubSeq(header_row, stub + 1, Len(header_row))
             remaining_width == target_length - stub
             expanded_row ==
                 stub_columns \o
                 (IF /\ grouped_columns # <<>>
                     /\ remaining_width > 0
                     /\ remaining_width % Len(grouped_columns) = 0
                  THEN RepeatEach(grouped_columns,
                                  remaining_width \div Len(grouped_columns))
                  ELSE grouped_columns)
             filled ==
                 IF Len(expanded_row) < target_length
                 THEN expanded_row \o
                      Repeat(IF expanded_row # <<>>
                             THEN expanded_row[Len(expanded_row)] ELSE <<>>,
                             target_length - Len(expanded_row))
                 ELSE expanded_row
         IN  SubSeq(filled, 1, target_length)

\* The loop of _apply_horizontal_merge_labels from index (1-based here).
RECURSIVE merge_labels_from(_, _, _, _, _)
merge_labels_from(header_row_1, header_row_1_cells, target_length, index, active_label) ==
    IF index > target_length THEN <<>>
    ELSE LET raw_label == IF index <= Len(header_row_1)
                          THEN header_row_1[index] ELSE <<>>
             label == strip(raw_label)
             has_cell == index <= Len(header_row_1_cells)
         IN  IF has_cell /\ header_row_1_cells[index].h_merge_start
             THEN <<label>> \o
                  merge_labels_from(header_row_1, header_row_1_cells,
                                    target_length, index + 1, label)
             ELSE IF has_cell /\ header_row_1_cells[index].h_merge_continue
             THEN <<IF active_label # <<>> THEN active_label ELSE label>> \o
                  merge_labels_from(header_row_1, header_row_1_cells,
                                    target_length, index + 1, active_label)
             ELSE <<label>> \o
                  merge_labels_from(header_row_1, header_row_1_cells,
                                    target_length, index + 1,
                                    IF label # <<>> THEN label
                                    ELSE active_label)

\* mutant: every cell keeps its own text, no label is carried over
apply_horizontal_merge_labels_own_text(header_row_1, header_row_1_cells, target_length) ==
    [index \in 1..target_length |->
        IF index <= Len(header_row_1) THEN strip(header_row_1[index])
        ELSE <<>>]

apply_horizontal_merge_labels(header_row_1, header_row_1_cells, target_length) ==
    merge_labels_from(header_row_1, header_row_1_cells, target_length, 1,
                      <<>>)

compose_header_name(column_index, level_1, level_2) ==
    LET cleaned_level_1 == strip(level_1)
        cleaned_level_2 == strip(level_2)
    IN  IF column_index = 1
        THEN IF cleaned_level_1 # <<>> THEN cleaned_level_1
             ELSE IF cleaned_level_2 # <<>> THEN cleaned_level_2
             ELSE column_placeholder(column_index)
        ELSE IF cleaned_level_1 # <<>> /\ cleaned_level_2 # <<>>
        THEN cleaned_level_1 \o Separator \o cleaned_level_2
        ELSE IF cleaned_level_1 # <<>> THEN cleaned_level_1
        ELSE IF cleaned_level_2 # <<>> THEN cleaned_level_2
        ELSE column_placeholder(column_index)

\* counts[header] when the loop of _deduplicate_headers has passed index
occurrence_count(headers, index) ==
    Cardinality({j \in 1..index : headers[j] = headers[index]})

\* mutant: repeated names are left as they are
deduplicate_headers_unchanged(headers) == headers

\* a repeated name gets "__" and its occurrence count
deduplicate_headers(headers) ==
    [index \in 1..Len(headers) |->
        IF occurrence_count(headers, index) = 1 THEN headers[index]
        ELSE headers[index] \o <<"_", "_">> \o
             str_int(occurrence_count(headers, index))]

build_composite_headers(header_row_1, header_row_2, header_row_1_cells) ==
    LET header_stub_column_count ==
            infer_header_stub_column_count(header_row_2)
        expanded_header_row_1 ==
            apply_horizontal_merge_labels(
                expand_header_row(header_row_1, Len(header_row_2),
                                  header_stub_column_count),
                header_row_1_cells, Len(header_row_2))
    IN  deduplicate_headers(
            [index \in 1..Len(header_row_2) |->
                compose_header_name(index, expanded_header_row_1[index],
                                    header_row_2[index])])

infer_stub_column_span(headers) ==
    IF \E i \in 1..Len(headers) : contains(headers[i], Separator)
    THEN Max(1, (CHOOSE i \in 1..Len(headers) :
                    /\ contains(headers[i], Separator)
                    /\ \A j \in 1..(i - 1) : ~contains(headers[j], Separator))
                - 1)
    ELSE Len(headers)

---------------------------------------------------------------------------
(* Body rows                                                               *)

\* mutant: only a repeat of the top header row is recognised
is_repeated_header_row_top_only(row_values, header_row_1, header_row_2) ==
    row_values = header_row_1

is_repeated_header_row(row_values, header_row_1, header_row_2) ==
    row_values = header_row_1 \/ row_values = header_row_2

\* mutant: the label is carried on whatever the stub column span
continues_label_any_span(row, stub_column_span, last_first_cell_value) ==
    /\ row.cells # <<>>
    /\ row.cells[1].v_merge_continue
    /\ last_first_cell_value # <<>>

\* lines 434-439: the test under which a blank first cell takes the label
continues_label(row, stub_column_span, last_first_cell_value) ==
    /\ stub_column_span = 1
    /\ row.cells # <<>>
    /\ row.cells[1].v_merge_continue
    /\ last_first_cell_value # <<>>

\* The second loop of _normalize_body_rows from index (1-based here):
\* the rows it keeps, or that it raised.
RECURSIVE normalize_from(_, _, _, _, _)
normalize_from(filtered_rows, width, stub_column_span, index, last_first_cell_value) ==
    IF index > Len(filtered_rows) THEN [raised |-> FALSE, rows |-> <<>>]
    ELSE LET row == filtered_rows[index]
             row_values == row_texts(row.cells)
         IN  IF Len(row_values) # width
             THEN IF \E j \in (index + 1)..Len(filtered_rows) :
                        Len(row_texts(filtered_rows[j].cells)) = width
                  THEN [raised |-> TRUE, rows |-> <<>>]
                  ELSE normalize_from(filtered_rows, width, stub_column_span,
                                      index + 1, last_first_cell_value)
             ELSE LET backfilled ==
                          IF row_values[1] # <<>> THEN row_values
                          ELSE IF continues_label(row, stub_column_span,
                                                  last_first_cell_value)
                          THEN [row_values EXCEPT ![1] = last_first_cell_value]
                          ELSE row_values
                      rest == normalize_from(
                                  filtered_rows, width, stub_column_span,
                                  index + 1,
                                  IF row_values[1] # <<>> THEN row_values[1]
                                  ELSE last_first_cell_value)
                  IN  IF rest.raised THEN rest
                      ELSE [raised |-> FALSE,
                            rows |-> <<backfilled>> \o rest.rows]

\* mutant: every row of another width is dropped, wherever it stands
normalize_body_rows_drop_mismatched(body, width, header_row_1, header_row_2, stub_column_span) ==
    LET filtered_rows ==
            SelectSeq(body, LAMBDA row :
                ~is_repeated_header_row(row_texts(row.cells), header_row_1,
                                        header_row_2))
        matching == SelectSeq(filtered_rows,
                              LAMBDA row : Len(row.cells) = width)
    IN  [raised |-> FALSE,
         rows |-> [k \in 1..Len(matching) |-> row_texts(matching[k].cells)]]

normalize_body_rows(body, width, header_row_1, header_row_2, stub_column_span) ==
    LET filtered_rows ==
            SelectSeq(body, LAMBDA row :
                ~is_repeated_header_row(row_texts(row.cells), header_row_1,
                                        header_row_2))
    IN  normalize_from(filtered_rows, width, stub_column_span, 1, <<>>)

---------------------------------------------------------------------------
(* The table                                                               *)

normalize_output_value(value) ==
    IF strip(value) = <<>> THEN Null ELSE TextVal(strip(value))

\* the keys of {header: [] for header in headers}: each name once, where
\* it first stands
dict_keys(headers) ==
    LET first == SelectSeq([i \in 1..Len(headers) |-> i],
                           LAMBDA i : \A j \in 1..(i - 1) :
                                          headers[j] # headers[i])
    IN  [k \in 1..Len(first) |-> headers[first[k]]]

\* what one row appends to table[header]
row_values_for(headers, row_values, header) ==
    LET at == SelectSeq([i \in 1..Len(headers) |-> i],
                        LAMBDA i : headers[i] = header)
    IN  [k \in 1..Len(at) |-> normalize_output_value(row_values[at[k]])]

rows_to_table_data(headers, body) ==
    LET names == dict_keys(headers)
    IN  [k \in 1..Len(names) |->
            [name |-> names[k],
             values |-> Flatten([r \in 1..Len(body) |->
                                    row_values_for(headers, body[r],
                                                   names[k])])]]

---------------------------------------------------------------------------
(* Numeric columns                                                         *)

IsSign(c) == c \in {"+", "-"}

AllDigits(s) == s # <<>> /\ \A i \in 1..Len(s) : IsDigit(s[i])

Unsigned(s) == IF s # <<>> /\ IsSign(s[1]) THEN Tail(s) ELSE s

\* INTEGER_PATTERN.fullmatch(value)
can_parse_int(value) == AllDigits(Unsigned(value))

\* digits with single underscores between them, as float() reads them
DigitPart(s) ==
    /\ s # <<>>
    /\ IsDigit(s[1]) /\ IsDigit(s[Len(s)])
    /\ \A i \in 1..Len(s) :
          \/ IsDigit(s[i])
          \/ s[i] = "_" /\ IsDigit(s[i - 1]) /\ IsDigit(s[i + 1])

PointAt(s) == CHOOSE i \in 1..Len(s) : s[i] = "."

\* the numerals float() reads as nan and as an infinity, in lower case
NonFiniteLiteral(body) == body \in {<<"n", "a", "n">>, <<"i", "n", "f">>}

\* float(value) raises no ValueError: a signed decimal numeral, nan or inf
\* (numerals with an exponent are not among the texts of the model)
float_accepts(value) ==
    LET body == Unsigned(value)
    IN  IF NonFiniteLiteral(body) THEN TRUE
        ELSE IF \E i \in 1..Len(body) : body[i] = "."
        THEN LET whole == SubSeq(body, 1, PointAt(body) - 1)
                 fraction == SubSeq(body, PointAt(body) + 1, Len(body))
             IN  /\ whole # <<>> \/ fraction # <<>>
                 /\ whole = <<>> \/ DigitPart(whole)
                 /\ fraction = <<>> \/ DigitPart(fraction)
        ELSE DigitPart(body)

\* float(value) succeeds and math.isfinite holds of it
can_parse_float(value) ==
    float_accepts(value) /\ ~NonFiniteLiteral(Unsigned(value))

RECURSIVE digits_value(_)
digits_value(s) ==
    IF s = <<>> THEN 0
    ELSE digits_value(SubSeq(s, 1, Len(s) - 1)) * 10 + DigitValue(s[Len(s)])

Signed(value, n) == IF value # <<>> /\ value[1] = "-" THEN -n ELSE n

\* int(value)
parse_int(value) == IntVal(Signed(value, digits_value(Unsigned(value))))

OnlyDigits(s) == SelectSeq(s, IsDigit)

\* float(value), of a numeral with at most FractionDigits decimal places
parse_float(value) ==
    LET body == Unsigned(value)
        point == IF \E i \in 1..Len(body) : body[i] = "."
                 THEN PointAt(body) ELSE Len(body) + 1
        whole == OnlyDigits(SubSeq(body, 1, point - 1))
        fraction == OnlyDigits(SubSeq(body, point + 1, Len(body)))
        padded == SubSeq(fraction \o Repeat("0", FractionDigits), 1,
                         FractionDigits)
    IN  FloatVal(Signed(value, digits_value(whole) * FloatScale
                                 + digits_value(padded)))

infer_numeric_parser(values) ==
    LET non_null_values == SelectSeq(values, LAMBDA value : ~IsNone(value))
    IN  IF non_null_values = <<>> THEN "None"
        ELSE IF \A i \in 1..Len(non_null_values) :
                    can_parse_int(non_null_values[i].s)
        THEN "int"
        ELSE IF \A i \in 1..Len(non_null_values) :
                    can_parse_float(non_null_values[i].s)
        THEN "float"
        ELSE "None"

\* mutant: each value is parsed on its own, whatever the rest of its column
parse_numeric_columns_per_value(table) ==
    [k \in 1..Len(table) |->
        [name |-> table[k].name,
         values |->
            [r \in 1..Len(table[k].values) |->
                LET value == table[k].values[r]
                IN  IF IsNone(value) THEN Null
                    ELSE IF can_parse_int(value.s) THEN parse_int(value.s)
                    ELSE IF can_parse_float(value.s) THEN parse_float(value.s)
                    ELSE value]]]

parse_numeric_columns(table) ==
    [k \in 1..Len(table) |->
        LET parser == infer_numeric_parser(table[k].values)
        IN  [name |-> table[k].name,
             values |->
                IF parser = "None" THEN table[k].values
                ELSE [r \in 1..Len(table[k].values) |->
                        IF IsNone(table[k].values[r]) THEN Null
                        ELSE IF parser = "int"
                        THEN parse_int(table[k].values[r].s)
                        ELSE parse_float(table[k].values[r].s)]]]

---------------------------------------------------------------------------
(* The rows load_rtf_table is run on: what _extract_rows_from_rtf can      *)
(* return, rows of one cell or more with a text that is not empty          *)

Cell(text, hs, hc, vc) ==
    [text |-> text, h_merge_start |-> hs, h_merge_continue |-> hc,
     v_merge_start |-> FALSE, v_merge_continue |-> vc]

Plain(text) == Cell(text, FALSE, FALSE, FALSE)

ParsedRow(cells) == [cells |-> cells]

NonBlank(cells) == \E i \in 1..Len(cells) : cells[i].text # <<>>

TopTexts == {<<>>, <<"n">>, <<"n", "_", "_", "2">>}
SubTexts == {<<>>, <<"x">>}

\* a Header-Top cell: any text, no merge flag, merge-start or merge-continue
TopCells ==
    {Cell(text, flags[1], flags[2], FALSE) :
        text \in TopTexts,
        flags \in {<<FALSE, FALSE>>, <<TRUE, FALSE>>, <<FALSE, TRUE>>}}

SubCells == {Plain(text) : text \in SubTexts}

RowsOf(cells, widths) ==
    {row \in UNION {[1..w -> cells] : w \in widths} : NonBlank(row)}

\* every pair of header rows, over one body row of the header's width
HeaderInputs ==
    {<<ParsedRow(top), ParsedRow(sub),
       ParsedRow([i \in 1..Len(sub) |-> Plain(<<"1">>)])>> :
        top \in RowsOf(TopCells, 1..MaxWidth),
        sub \in RowsOf(SubCells, 1..MaxWidth)}

BodyTexts == {<<>>, <<"A">>, <<"x">>, <<"1">>}

\* a body row: its first cell with or without vertical-merge-continue
BodyRows ==
    {[row EXCEPT ![1] = Cell(row[1].text, FALSE, FALSE, vc)] :
        row \in RowsOf({Plain(text) : text \in BodyTexts}, 1..BodyWidth),
        vc \in BOOLEAN}

BodyHeaders ==
    {<<ParsedRow(<<Plain(<<"A">>), Plain(<<"x">>)>>),
       ParsedRow(<<Plain(<<>>), Plain(<<"1">>)>>)>>,
     <<ParsedRow(<<Plain(<<"A">>), Plain(<<"x">>)>>),
       ParsedRow(<<Plain(<<"1">>), Plain(<<>>)>>)>>}

\* two header pairs over every sequence of body rows, none included
BodyInputs ==
    {header \o [i \in 1..Len(body) |-> ParsedRow(body[i])] :
        header \in BodyHeaders, body \in SeqsUpTo(BodyRows, MaxBodyRows)}

NoTable == <<>>

\* a body one row longer, of full-width rows that repeat no header row:
\* blank and labelled first cells, with and without vertical-merge-continue
ChainRows ==
    {<<Cell(text, FALSE, FALSE, vc), Plain(<<"x">>)>> :
        text \in {<<>>, <<"x">>}, vc \in BOOLEAN}

ChainInputs ==
    {header \o [i \in 1..(MaxBodyRows + 1) |-> ParsedRow(body[i])] :
        header \in BodyHeaders, body \in [1..(MaxBodyRows + 1) -> ChainRows]}

NumericTexts ==
    {<<>>, <<"1">>, <<"+", "5">>, <<"0", "7">>, <<"-", "2">>,
     <<"1", ".", "5">>, <<".", "5">>, <<"1", "_", "0">>, <<"x">>,
     <<"n", "a", "n">>, <<"i", "n", "f">>}

\* a labelled first cell before a cell of any of the numeric texts
NumericRows ==
    {<<Plain(<<"x">>), Plain(text)>> : text \in NumericTexts}

\* columns of MaxBodyRows + 1 values for the numeric inference
NumericInputs ==
    {header \o [i \in 1..(MaxBodyRows + 1) |-> ParsedRow(body[i])] :
        header \in {<<ParsedRow(<<Plain(<<"A">>), Plain(<<"x">>)>>),
                      ParsedRow(<<Plain(<<>>), Plain(<<"1">>)>>)>>},
        body \in [1..(MaxBodyRows + 1) -> NumericRows]}

\* header rows whose composed names collide after deduplication, over
\* MaxBodyRows body rows of blank and filled cells
CollidingInputs ==
    {<<ParsedRow(<<Plain(<<"n">>), Plain(<<"n">>),
                   Plain(<<"n", "_", "_", "2">>)>>),
       ParsedRow(<<Plain(<<"x">>), Plain(<<>>), Plain(<<>>)>>)>>
        \o [i \in 1..MaxBodyRows |-> ParsedRow(body[i])] :
        body \in [1..MaxBodyRows ->
                    RowsOf({Plain(<<>>), Plain(<<"1">>)}, {3})]}

\* Header-Top rows of stub labels and group labels over wider and narrower
\* Header-Sub rows: one or two stub columns, the groups dividing the
\* measurement columns evenly and unevenly, over one body row
PlainRow(texts) == ParsedRow([i \in 1..Len(texts) |-> Plain(texts[i])])

GroupedHeaders ==
    {<<<< <<"A">>, <<"G">>, <<"H">> >>,
       << <<>>, <<"n">>, <<"p">>, <<"n">>, <<"p">> >> >>,
     <<<< <<"A">>, <<"G">>, <<"H">> >>,
       << <<"x">>, <<"n">>, <<"p">>, <<"n">>, <<"p">> >> >>,
     <<<< <<>>, <<"G">>, <<"H">> >>,
       << <<>>, <<"n">>, <<>>, <<"n">>, <<"p">> >> >>,
     <<<< <<"A">>, <<"G">>, <<>> >>,
       << <<>>, <<"n">>, <<"p">>, <<"n">>, <<"p">> >> >>,
     <<<< <<"A">>, <<"B">>, <<"G">>, <<"H">> >>,
       << <<>>, <<>>, <<"n">>, <<"p">>, <<"n">>, <<"p">> >> >>,
     <<<< <<"A">>, <<"G">>, <<"H">> >>,
       << <<>>, <<"n">>, <<"p">>, <<"n">>, <<"p">>, <<"n">>, <<"p">> >> >>,
     <<<< <<"A">>, <<"G">>, <<"H">> >>,
       << <<>>, <<"n">>, <<"p">>, <<"n">> >> >>,
     <<<< <<"A">>, <<"G">>, <<"H">> >>,
       << <<"x">> >> >>,
     <<<< <<"A">>, <<"G">>, <<"H">> >>,
       << <<"x">>, <<"n">> >> >>,
     <<<< <<"A">>, <<"G">> >>,
       << <<>>, <<>>, <<"n">>, <<"p">> >> >>}

GroupedInputs ==
    {<<PlainRow(header[1]), PlainRow(header[2]),
       PlainRow([i \in 1..Len(header[2]) |-> <<"1">>])>> :
        header \in GroupedHeaders}

\* documents of no row and of one row
ShortInputs == {<<>>, <<ParsedRow(<<Plain(<<"A">>), Plain(<<"x">>)>>)>>}

LoadInit ==
    /\ rows \in HeaderInputs \cup BodyInputs \cup ChainInputs \cup ShortInputs
                 \cup NumericInputs \cup CollidingInputs \cup GroupedInputs
    /\ load_pc = "rows"
    /\ load_headers = <<>>
    /\ load_stub_column_span = 0
    /\ body_rows = <<>>
    /\ raw_table = NoTable
    /\ load_result = NoResult
    /\ CompareIdle
    /\ TokenIdle
    /\ CliIdle

---------------------------------------------------------------------------
(* load_rtf_table, from the rows of the document                           *)

LoadFinish(r) ==
    /\ load_result' = r
    /\ load_pc' = "done"

header_top == row_texts(rows[1].cells)
header_sub == row_texts(rows[2].cells)

\* lines 60-62
CheckRows ==
    /\ load_pc = "rows"
    /\ IF Len(rows) < 3
       THEN LoadFinish(Raised("ValueError", "not enough rows"))
       ELSE /\ load_pc' = "headers"
            /\ UNCHANGED load_result
    /\ UNCHANGED <<rows, load_headers, load_stub_column_span, body_rows, raw_table>>

\* lines 64-71
BuildHeaders ==
    /\ load_pc = "headers"
    /\ load_headers' = build_composite_headers(header_top, header_sub,
                                          rows[1].cells)
    /\ load_stub_column_span' = infer_stub_column_span(load_headers')
    /\ load_pc' = "body"
    /\ UNCHANGED <<rows, body_rows, raw_table, load_result>>

\* mutant: an empty list of body rows goes on to the table
NormalizeBody_empty_accepted ==
    /\ load_pc = "body"
    /\ LET normalized == normalize_body_rows(
                             SubSeq(rows, 3, Len(rows)), Len(load_headers),
                             header_top, header_sub, load_stub_column_span)
       IN  IF normalized.raised
           THEN /\ LoadFinish(Raised("ValueError", "inconsistent row width"))
                /\ UNCHANGED body_rows
           ELSE /\ body_rows' = normalized.rows
                /\ load_pc' = "table"
                /\ UNCHANGED load_result
    /\ UNCHANGED <<rows, load_headers, load_stub_column_span, raw_table>>

\* lines 73-81
NormalizeBody ==
    /\ load_pc = "body"
    /\ LET normalized == normalize_body_rows(
                             SubSeq(rows, 3, Len(rows)), Len(load_headers),
                             header_top, header_sub, load_stub_column_span)
       IN  IF normalized.raised
           THEN /\ LoadFinish(Raised("ValueError", "inconsistent row width"))
                /\ UNCHANGED body_rows
           ELSE IF normalized.rows = <<>>
           THEN /\ LoadFinish(Raised("ValueError", "no body rows"))
                /\ UNCHANGED body_rows
           ELSE /\ body_rows' = normalized.rows
                /\ load_pc' = "table"
                /\ UNCHANGED load_result
    /\ UNCHANGED <<rows, load_headers, load_stub_column_span, raw_table>>

\* line 83
AssembleTable ==
    /\ load_pc = "table"
    /\ raw_table' = rows_to_table_data(load_headers, body_rows)
    /\ load_pc' = "numeric"
    /\ UNCHANGED <<rows, load_headers, load_stub_column_span, body_rows, load_result>>

\* line 84
ParseNumeric ==
    /\ load_pc = "numeric"
    /\ LoadFinish([kind |-> "returned",
                   table |-> parse_numeric_columns(raw_table)])
    /\ UNCHANGED <<rows, load_headers, load_stub_column_span, body_rows, raw_table>>

LoadNext ==
    \/ CheckRows /\ UNCHANGED <<compareVars, tokenVars, cliVars>>
    \/ BuildHeaders /\ UNCHANGED <<compareVars, tokenVars, cliVars>>
    \/ NormalizeBody /\ UNCHANGED <<compareVars, tokenVars, cliVars>>
    \/ AssembleTable /\ UNCHANGED <<compareVars, tokenVars, cliVars>>
    \/ ParseNumeric /\ UNCHANGED <<compareVars, tokenVars, cliVars>>

SpecLoad == LoadInit /\ [][LoadNext]_vars

---------------------------------------------------------------------------
(* The row tokenizer: characters and patterns                              *)

Backslash == "\\"

LetterChars ==
    {"a", "b", "c", "d", "e", "f", "g", "h", "i", "j", "k", "l", "m",
     "n", "o", "p", "q", "r", "s", "t", "u", "v", "w", "x", "y", "z",
     "A", "B", "C", "D", "E", "F", "G", "H", "I", "J", "K", "L", "M",
     "N", "O", "P", "Q", "R", "S", "T", "U", "V", "W", "X", "Y", "Z"}

DigitChars == {Digits[d] : d \in 1..10}

HexDigitChars ==
    DigitChars \cup {"a", "b", "c", "d", "e", "f", "A", "B", "C", "D", "E", "F"}

BraceChars == {"{", "}"}

\* s[i - 1:].startswith(literal), i counted from 1
starts_with(s, i, literal) ==
    /\ i + Len(literal) - 1 <= Len(s)
    /\ SubSeq(s, i, i + Len(literal) - 1) = literal

\* where a greedy run of the characters of chars that starts at i ends: the
\* first index from i on that holds none of them, Len(s) + 1 if there is none
run_end(s, i, chars) ==
    CHOOSE j \in i..(Len(s) + 1) :
        /\ j = Len(s) + 1 \/ s[j] \notin chars
        /\ \A k \in i..(j - 1) : s[k] \in chars

\* the first index from i on that holds a character of chars, Len(s) + 1 if
\* there is none
first_of(s, i, chars) ==
    CHOOSE j \in i..(Len(s) + 1) :
        /\ j = Len(s) + 1 \/ s[j] \in chars
        /\ \A k \in i..(j - 1) : s[k] \notin chars

LINE == <<Backslash, "l", "i", "n", "e">>
SUPER == <<"{", Backslash, "s", "u", "p", "e", "r">>
TROWD == <<Backslash, "t", "r", "o", "w", "d">>
INTBL == <<Backslash, "i", "n", "t", "b", "l">>
ROW == <<Backslash, "r", "o", "w">>
PARD == <<Backslash, "p", "a", "r", "d">>
CELL == <<Backslash, "c", "e", "l", "l">>
CELLX == <<Backslash, "c", "e", "l", "l", "x">>
CLMGF == <<Backslash, "c", "l", "m", "g", "f">>
CLMRG == <<Backslash, "c", "l", "m", "r", "g">>
CLVMGF == <<Backslash, "c", "l", "v", "m", "g", "f">>
CLVMRG == <<Backslash, "c", "l", "v", "m", "r", "g">>

\* Each *_end(s, i) is the index after the match of its pattern that starts
\* at i, or 0 when the pattern does not match there.

\* SUPERSCRIPT_GROUP_PATTERN, \{\\super\s+[^{}]*\}
superscript_group_end(s, i) ==
    IF ~starts_with(s, i, SUPER) THEN 0
    ELSE LET spaces_end == run_end(s, i + Len(SUPER), SpaceChars)
             brace == first_of(s, spaces_end, BraceChars)
         IN  IF /\ spaces_end > i + Len(SUPER)
                /\ brace <= Len(s)
                /\ s[brace] = "}"
             THEN brace + 1
             ELSE 0

\* where the digits of an optionally negative number that starts at i end
number_end(s, i) ==
    IF i <= Len(s) /\ s[i] = "-"
    THEN run_end(s, i + 1, DigitChars)
    ELSE run_end(s, i, DigitChars)

\* the number has a digit
has_digits(s, i) ==
    number_end(s, i) > (IF i <= Len(s) /\ s[i] = "-" THEN i + 1 ELSE i)

\* UNICODE_ESCAPE_PATTERN, \\u(-?\d+)\?
unicode_escape_end(s, i) ==
    IF ~starts_with(s, i, <<Backslash, "u">>) THEN 0
    ELSE LET digits_end == number_end(s, i + 2)
         IN  IF /\ has_digits(s, i + 2)
                /\ digits_end <= Len(s)
                /\ s[digits_end] = "?"
             THEN digits_end + 1
             ELSE 0

\* HEX_ESCAPE_PATTERN, \\'[0-9a-fA-F]{2}
hex_escape_end(s, i) ==
    IF /\ starts_with(s, i, <<Backslash, "'">>)
       /\ i + 3 <= Len(s)
       /\ s[i + 2] \in HexDigitChars
       /\ s[i + 3] \in HexDigitChars
    THEN i + 4
    ELSE 0

\* ESCAPED_BRACE_PATTERN, \\([{}\\])
escaped_brace_end(s, i) ==
    IF /\ i + 1 <= Len(s)
       /\ s[i] = Backslash
       /\ s[i + 1] \in BraceChars \cup {Backslash}
    THEN i + 2
    ELSE 0

\* CONTROL_WORD_PATTERN, \\[a-zA-Z]+-?\d* ?
control_word_end(s, i) ==
    IF ~(i + 1 <= Len(s) /\ s[i] = Backslash /\ s[i + 1] \in LetterChars)
    THEN 0
    ELSE LET digits_end == number_end(s, run_end(s, i + 1, LetterChars))
         IN  IF digits_end <= Len(s) /\ s[digits_end] = " "
             THEN digits_end + 1
             ELSE digits_end

\* CELLX_PATTERN, \\cellx-?\d+
cellx_end(s, i) ==
    IF starts_with(s, i, CELLX) /\ has_digits(s, i + Len(CELLX))
    THEN number_end(s, i + Len(CELLX))
    ELSE 0

\* CELL_DELIMITER_PATTERN, \\cell(?!x)
cell_delimiter_end(s, i) ==
    IF /\ starts_with(s, i, CELL)
       /\ ~(i + Len(CELL) <= Len(s) /\ s[i + Len(CELL)] = "x")
    THEN i + Len(CELL)
    ELSE 0

\* WHITESPACE_PATTERN, \s+
whitespace_end(s, i) ==
    IF s[i] \in SpaceChars THEN run_end(s, i, SpaceChars) ELSE 0

pattern_end(pattern, s, i) ==
    CASE pattern = "LINE" -> IF starts_with(s, i, LINE) THEN i + Len(LINE) ELSE 0
      [] pattern = "SUPERSCRIPT_GROUP_PATTERN" -> superscript_group_end(s, i)
      [] pattern = "HEX_ESCAPE_PATTERN" -> hex_escape_end(s, i)
      [] pattern = "ESCAPED_BRACE_PATTERN" -> escaped_brace_end(s, i)
      [] pattern = "CONTROL_WORD_PATTERN" -> control_word_end(s, i)
      [] pattern = "WHITESPACE_PATTERN" -> whitespace_end(s, i)

\* what a match of the pattern at i is replaced by in _clean_cell_text
replacement(pattern, s, i) ==
    CASE pattern = "LINE" -> <<" ">>
      [] pattern = "ESCAPED_BRACE_PATTERN" -> <<s[i + 1]>>
      [] pattern = "WHITESPACE_PATTERN" -> <<" ">>
      [] OTHER -> <<>>

\* pattern.sub(replacement, s) from index i: the matches are taken from
\* left to right and do not overlap
RECURSIVE re_sub_from(_, _, _)
re_sub_from(pattern, s, i) ==
    IF i > Len(s) THEN <<>>
    ELSE LET stop == pattern_end(pattern, s, i)
         IN  IF stop = 0
             THEN <<s[i]>> \o re_sub_from(pattern, s, i + 1)
             ELSE replacement(pattern, s, i) \o re_sub_from(pattern, s, stop)

re_sub(pattern, s) == re_sub_from(pattern, s, 1)

\* int(match.group(1))
int_of(numeral) == Signed(numeral, digits_value(Unsigned(numeral)))

MaxCodePoint == 1114111

\* the characters of code points 32 to 126, the grave accent by its name
Ascii ==
    <<" ", "!", "\"", "#", "$", "%", "&", "'", "(", ")", "*", "+", ",",
      "-", ".", "/", "0", "1", "2", "3", "4", "5", "6", "7", "8", "9", ":",
      ";", "<", "=", ">", "?", "@", "A", "B", "C", "D", "E", "F", "G", "H",
      "I", "J", "K", "L", "M", "N", "O", "P", "Q", "R", "S", "T", "U", "V",
      "W", "X", "Y", "Z", "[", "\\", "]", "^", "_", CodePointName(96), "a", "b", "c",
      "d", "e", "f", "g", "h", "i", "j", "k", "l", "m", "n", "o", "p", "q",
      "r", "s", "t", "u", "v", "w", "x", "y", "z", "{", "|", "}", "~">>

\* chr(code_point) of a code point chr accepts: the character itself where
\* the texts of the model can hold it, its name everywhere else
chr(code_point) ==
    IF code_point \in 32..126 THEN Ascii[code_point - 31]
    ELSE IF code_point = 9 THEN "\t"
    ELSE IF code_point = 10 THEN "\n"
    ELSE CodePointName(code_point)

\* _decode_unicode_escape: the character, or that chr raised
decode_unicode_escape(numeral) ==
    LET n == int_of(numeral)
        code_point == IF n < 0 THEN n + 65536 ELSE n
    IN  IF code_point \in 0..MaxCodePoint
        THEN [raised |-> FALSE, text |-> <<chr(code_point)>>]
        ELSE [raised |-> TRUE, text |-> <<>>]

\* UNICODE_ESCAPE_PATTERN.sub(_decode_unicode_escape, s) from index i, with
\* the text substituted so far
RECURSIVE decode_unicode_escapes_from(_, _, _)
decode_unicode_escapes_from(s, i, text) ==
    IF i > Len(s) THEN [raised |-> FALSE, text |-> text]
    ELSE IF unicode_escape_end(s, i) = 0
    THEN decode_unicode_escapes_from(s, i + 1, Append(text, s[i]))
    ELSE LET stop == unicode_escape_end(s, i)
             decoded == decode_unicode_escape(SubSeq(s, i + 2, stop - 2))
         IN  IF decoded.raised THEN decoded
             ELSE decode_unicode_escapes_from(s, stop, text \o decoded.text)

\* _clean_cell_text: the plain text of a cell fragment, or that it raised
clean_cell_text(cell_rtf) ==
    LET decoded == decode_unicode_escapes_from(
                       re_sub("SUPERSCRIPT_GROUP_PATTERN",
                              re_sub("LINE", cell_rtf)),
                       1, <<>>)
    IN  IF decoded.raised THEN decoded
        ELSE LET unescaped == re_sub("ESCAPED_BRACE_PATTERN",
                                  re_sub("HEX_ESCAPE_PATTERN", decoded.text))
                 stripped == re_sub("CONTROL_WORD_PATTERN", unescaped)
                 unbraced == SelectSeq(stripped, LAMBDA c : c \notin BraceChars)
             IN  [raised |-> FALSE,
                  text |-> strip(re_sub("WHITESPACE_PATTERN", unbraced))]

---------------------------------------------------------------------------
(* The row tokenizer: _extract_rows_from_rtf                               *)

\* where (?:\\intbl\s*)?\\row matches at j: the index after it, or 0
row_terminator_end(s, j) ==
    IF /\ starts_with(s, j, INTBL)
       /\ starts_with(s, run_end(s, j + Len(INTBL), SpaceChars), ROW)
    THEN run_end(s, j + Len(INTBL), SpaceChars) + Len(ROW)
    ELSE IF starts_with(s, j, ROW) THEN j + Len(ROW)
    ELSE 0

\* the index after the optional (?:\s*\\pard)? that follows a terminator
row_match_end(s, after_row) ==
    LET spaces_end == run_end(s, after_row, SpaceChars)
    IN  IF starts_with(s, spaces_end, PARD) THEN spaces_end + Len(PARD)
        ELSE after_row

\* the first match of ROW_PATTERN from index position on: the lazy body
\* ends at the first index where the terminator matches
next_row_match(s, position) ==
    LET starts == {i \in position..Len(s) :
                      /\ starts_with(s, i, TROWD)
                      /\ \E j \in (i + Len(TROWD))..Len(s) :
                            row_terminator_end(s, j) # 0}
    IN  IF starts = {} THEN [found |-> FALSE]
        ELSE LET start == CHOOSE i \in starts : \A k \in starts : i <= k
                 body_start == start + Len(TROWD)
                 body_end ==
                     CHOOSE j \in body_start..Len(s) :
                         /\ row_terminator_end(s, j) # 0
                         /\ \A k \in body_start..(j - 1) :
                                row_terminator_end(s, k) = 0
             IN  [found |-> TRUE,
                  body |-> SubSeq(s, body_start, body_end - 1),
                  stop |-> row_match_end(s, row_terminator_end(s, body_end))]

\* the indexes after the matches of CELLX_PATTERN from index i on, in order
RECURSIVE cellx_match_ends(_, _)
cellx_match_ends(row_block, i) ==
    IF i > Len(row_block) THEN <<>>
    ELSE IF cellx_end(row_block, i) = 0 THEN cellx_match_ends(row_block, i + 1)
    ELSE <<cellx_end(row_block, i)>> \o
         cellx_match_ends(row_block, cellx_end(row_block, i))

\* _parse_cell_definitions: each definition runs from the end of the one
\* before to the end of its \cellx
parse_cell_definitions(row_block) ==
    LET ends == cellx_match_ends(row_block, 1)
    IN  [k \in 1..Len(ends) |->
            SubSeq(row_block, IF k = 1 THEN 1 ELSE ends[k - 1], ends[k] - 1)]

\* _find_cell_content_start_index, as the index of the first content character
find_cell_content_start_index(row_block) ==
    LET ends == cellx_match_ends(row_block, 1)
    IN  IF ends = <<>> THEN 1 ELSE ends[Len(ends)]

\* the loop of _split_row_cells from index i with the fragment begun at cursor
RECURSIVE split_from(_, _, _)
split_from(row_block, cursor, i) ==
    IF i > Len(row_block) THEN <<>>
    ELSE IF cell_delimiter_end(row_block, i) = 0
    THEN split_from(row_block, cursor, i + 1)
    ELSE <<SubSeq(row_block, cursor, i - 1)>> \o
         split_from(row_block, cell_delimiter_end(row_block, i),
                    cell_delimiter_end(row_block, i))

split_row_cells(row_block, start_index) ==
    split_from(row_block, start_index, start_index)

\* the RowCell of the fragment at index, with the text it cleaned to
row_cell(cell_defs, index, text) ==
    LET cell_def == IF index <= Len(cell_defs) THEN cell_defs[index] ELSE <<>>
    IN  [text |-> text,
         h_merge_start |-> contains(cell_def, CLMGF),
         h_merge_continue |-> contains(cell_def, CLMRG),
         v_merge_start |-> contains(cell_def, CLVMGF),
         v_merge_continue |-> contains(cell_def, CLVMRG)]

\* one pass of the loop of _extract_rows_from_rtf over a row block: the rows
\* it appends (none or one), or that cleaning a fragment raised
extract_row(row_block) ==
    LET cell_defs == parse_cell_definitions(row_block)
        cell_fragments ==
            split_row_cells(row_block, find_cell_content_start_index(row_block))
        cleaned == [k \in 1..Len(cell_fragments) |->
                       clean_cell_text(cell_fragments[k])]
        parsed_cells == [k \in 1..Len(cell_fragments) |->
                            row_cell(cell_defs, k, cleaned[k].text)]
    IN  IF cell_defs = <<>> THEN [raised |-> FALSE, rows |-> <<>>]
        ELSE IF \E k \in 1..Len(cleaned) : cleaned[k].raised
        THEN [raised |-> TRUE, rows |-> <<>>]
        ELSE IF \E k \in 1..Len(parsed_cells) : parsed_cells[k].text # <<>>
        THEN [raised |-> FALSE, rows |-> <<ParsedRow(parsed_cells)>>]
        ELSE [raised |-> FALSE, rows |-> <<>>]

---------------------------------------------------------------------------
(* The documents the tokenizer is run on                                  *)

\* the cell fragments: plain text, Unicode escapes inside and outside the
\* range of chr, escaped braces and backslashes, a hex escape, a
\* superscript group, a line break, a control word
TokenFragments ==
    {<<"A">>, <<>>, <<Backslash, "u", "6", "5", "?">>,
     <<Backslash, "u", "-", "3", "?">>,
     <<Backslash, "u", "-", "6", "5", "5", "3", "6", "?">>,
     <<Backslash, "u", "1", "1", "1", "4", "1", "1", "1", "?">>,
     <<Backslash, "u", "1", "1", "1", "4", "1", "1", "2", "?">>,
     <<Backslash, "u", "-", "6", "5", "5", "3", "7", "?">>,
     <<Backslash, "{", "x", Backslash, "}">>,
     <<Backslash, "'", "e", "9", "A">>,
     <<"{", Backslash, "s", "u", "p", "e", "r", " ", "a", "}", "A">>,
     <<"A", Backslash, "l", "i", "n", "e", " ", "x">>,
     <<Backslash, "b", " ", "A">>,
     <<Backslash, "u", "9", "2", "?", "u", "6", "5", "?">>,
     <<Backslash, "u", "1", "6", "0", "?", "x">>,
     <<Backslash, "u", "6", "5">>,
     <<Backslash, Backslash, "p", "a", "r", " ", "x">>,
     <<Backslash, Backslash, " ", "x">>}

\* the definitions of a row of cell_count plain cells
RECURSIVE plain_definitions(_)
plain_definitions(cell_count) ==
    IF cell_count = 0 THEN <<>>
    ELSE plain_definitions(cell_count - 1) \o CELLX \o str_int(cell_count)

\* the fragments, each closed by its delimiter
RECURSIVE delimited(_)
delimited(fragments) ==
    IF fragments = <<>> THEN <<>>
    ELSE Head(fragments) \o CELL \o delimited(Tail(fragments))

\* a row as a writer of RTF emits it
row_text(definitions, fragments, closing) ==
    TROWD \o definitions \o PARD \o INTBL \o <<" ">> \o
    delimited(fragments) \o closing

OneCellRows ==
    {row_text(plain_definitions(1), <<f>>, ROW) : f \in TokenFragments}

WideRows ==
    UNION {{row_text(plain_definitions(n), fragments, ROW) :
               fragments \in [1..n -> {<<"A">>, <<>>}]} : n \in 2..MaxCells}

\* rows whose definitions carry merge flags
FlagRows ==
    {row_text(CLMGF \o CELLX \o <<"1">> \o CLMRG \o CELLX \o <<"2">>,
              <<<<"A">>, <<>>>>, ROW),
     row_text(CLVMGF \o CELLX \o <<"1">>, <<<<"A">>>>, ROW),
     row_text(CLVMRG \o CELLX \o <<"1">>, <<<<"A">>>>, ROW)}

\* rows of other shapes: no cell definition, more fragments than
\* definitions, text after the last delimiter, a negative cell edge, no
\* fragment, and the longer closings
OddRows ==
    {row_text(<<>>, <<<<"A">>>>, ROW),
     row_text(plain_definitions(1), <<<<"A">>, <<" ", "x">>>>, ROW),
     row_text(plain_definitions(1), <<<<"A">>>>, <<" ", "x">> \o ROW),
     row_text(CELLX \o <<"-", "5">>, <<<<"A">>>>, ROW),
     row_text(plain_definitions(1), <<>>, ROW),
     row_text(plain_definitions(1), <<<<"A">>>>, INTBL \o <<" ">> \o ROW),
     row_text(plain_definitions(1), <<<<"A">>>>, ROW \o <<"\n">> \o PARD)}

TokenRowTexts == OneCellRows \cup WideRows \cup FlagRows \cup OddRows

RECURSIVE concatenated(_)
concatenated(texts) ==
    IF texts = <<>> THEN <<>>
    ELSE Head(texts) \o concatenated(Tail(texts))

\* a document of up to MaxTokenRows rows inside the braces of its group
TokenInputs ==
    {<<"{">> \o concatenated(texts) \o <<"}">> :
        texts \in UNION {[1..n -> TokenRowTexts] : n \in 0..MaxTokenRows}}

---------------------------------------------------------------------------
(* The tokenizer as a state machine                                        *)

TokenInit ==
    /\ rtf_text \in TokenInputs
    /\ token_pc = "rows"
    /\ scan_position = 1
    /\ token_rows = <<>>
    /\ token_result = NoResult
    /\ CompareIdle
    /\ LoadIdle
    /\ CliIdle

\* lines 156-182: one pass of the loop over the matches of ROW_PATTERN
TokenizeRow ==
    /\ token_pc = "rows"
    /\ next_row_match(rtf_text, scan_position).found
    /\ LET row_match == next_row_match(rtf_text, scan_position)
           outcome == extract_row(row_match.body)
       IN  IF outcome.raised
           THEN /\ token_result' = [raised |-> TRUE, rows |-> <<>>]
                /\ token_pc' = "done"
                /\ UNCHANGED <<scan_position, token_rows>>
           ELSE /\ token_rows' = token_rows \o outcome.rows
                /\ scan_position' = row_match.stop
                /\ UNCHANGED <<token_pc, token_result>>
    /\ UNCHANGED rtf_text

\* line 183: no match is left
TokenizeReturn ==
    /\ token_pc = "rows"
    /\ ~next_row_match(rtf_text, scan_position).found
    /\ token_result' = [raised |-> FALSE, rows |-> token_rows]
    /\ token_pc' = "done"
    /\ UNCHANGED <<rtf_text, scan_position, token_rows>>

TokenNext ==
    \/ TokenizeRow /\ UNCHANGED <<compareVars, loadVars, cliVars>>
    \/ TokenizeReturn /\ UNCHANGED <<compareVars, loadVars, cliVars>>

SpecTokenize == TokenInit /\ [][TokenNext]_vars

---------------------------------------------------------------------------
(* The command line: paths, files and the comparison of two HTML files     *)

\* A path text as the input CSV holds it: whether it begins with "./", its
\* directory, and the stem and the suffix of its file name.
PathText(dot, dir, stem, suffix) ==
    [dot |-> dot, dir |-> dir, stem |-> stem, suffix |-> suffix]

\* Path(text): pathlib keeps no leading "./"
Path(text) == [dir |-> text.dir, stem |-> text.stem, suffix |-> text.suffix]

\* str(path)
path_str(path) == PathText(FALSE, path.dir, path.stem, path.suffix)

\* path.suffix.lower()
lower_suffix(path) ==
    CASE path.suffix = ".RTF" -> ".rtf"
      [] path.suffix = ".HTML" -> ".html"
      [] OTHER -> path.suffix

Absent == [format |-> "absent", tables |-> <<>>]

\* a file of tables, each table standing for its structure
RtfFile(tables) == [format |-> "rtf", tables |-> tables]

HtmlFile(tables) == [format |-> "html", tables |-> tables]

\* where an HTML file to compare lies: at a path of the file system, or in
\* the temporary directory under the name stem.html
Given(path) == [place |-> "given", path |-> path, stem |-> path.stem]

InTmp(stem) ==
    [place |-> "tmp", stem |-> stem,
     path |-> [dir |-> "tmp", stem |-> stem, suffix |-> ".html"]]

\* the file at a location
file_at(location, file_system, tmp_listing) ==
    IF location.place = "tmp" THEN tmp_listing[location.stem]
    ELSE file_system[location.path]

CliRaised(error) == [raised |-> TRUE, error |-> error]

\* convert_rtf_to_html: the location of the HTML file and the temporary
\* directory after soffice wrote it, or the error
convert_rtf_to_html(input_path, file_system, tmp_listing, soffice) ==
    IF ~soffice THEN CliRaised("RtfToHtmlConversionError")
    ELSE IF file_system[input_path] = Absent
    THEN CliRaised("RtfToHtmlConversionError")
    ELSE IF lower_suffix(input_path) # ".rtf"
    THEN CliRaised("RtfToHtmlConversionError")
    ELSE [raised |-> FALSE,
          location |-> InTmp(input_path.stem),
          tmp |-> [tmp_listing EXCEPT ![input_path.stem] =
                      HtmlFile(file_system[input_path].tables)]]

\* _ensure_html
ensure_html(path, file_system, tmp_listing, soffice) ==
    IF lower_suffix(path) = ".rtf"
    THEN convert_rtf_to_html(path, file_system, tmp_listing, soffice)
    ELSE [raised |-> FALSE, location |-> Given(path), tmp |-> tmp_listing]

\* An HTML table: its columns in order, each the text of its header cell
\* and the texts of its body cells, the empty text for an empty cell.
HtmlColumn(name, cells) == [name |-> name, cells |-> cells]

\* a text pandas reads as a number: digits with at most one decimal point
\* (signs and exponents are not among the cell texts used here)
is_numeric_text(text) ==
    /\ \E i \in 1..Len(text) : text[i] \in DigitChars
    /\ \A i \in 1..Len(text) : text[i] \in DigitChars \cup {"."}
    /\ Cardinality({i \in 1..Len(text) : text[i] = "."}) <= 1

NumberVal(literal) == [t |-> "number", literal |-> literal]

\* pd.read_html on one column: an empty cell is NaN; a column whose other
\* cells all are numbers is of a numeric dtype, any other column is of
\* dtype object and holds the cell texts
read_html_column(column) ==
    LET numeric ==
            /\ column.cells # <<>>
            /\ \A i \in 1..Len(column.cells) :
                  column.cells[i] = <<>> \/ is_numeric_text(column.cells[i])
    IN  [name |-> column.name,
         dtype |-> IF numeric THEN "number" ELSE "object",
         values |-> [i \in 1..Len(column.cells) |->
                        IF column.cells[i] = <<>> THEN NaN
                        ELSE IF numeric THEN NumberVal(column.cells[i])
                        ELSE TextVal(column.cells[i])]]

\* _read_html_tables: one frame per table
read_html_tables(tables) ==
    [t \in 1..Len(tables) |->
        [c \in 1..Len(tables[t]) |-> read_html_column(tables[t][c])]]

\* pd.to_numeric(value, errors="coerce")
to_numeric(value) ==
    IF value.t = "number" THEN value
    ELSE IF value.t = "text" /\ is_numeric_text(value.s) THEN NumberVal(value.s)
    ELSE NaN

\* str(value)
astype_str(value) ==
    IF value.t = "text" THEN value.s
    ELSE IF value.t = "number" THEN value.literal
    ELSE <<"n", "a", "n">>

\* str.extract(r"^\s*([\d.]+)"): the leading number of a text, NaN if none
extract_leading_number(text) ==
    LET first == run_end(text, 1, SpaceChars)
        last == run_end(text, first, DigitChars \cup {"."})
    IN  IF last > first THEN TextVal(SubSeq(text, first, last - 1)) ELSE NaN

\* numeric.notna().mean() > 0.5
mostly_numbers(values) ==
    2 * Cardinality({i \in 1..Len(values) : values[i].t = "number"})
        > Len(values)

\* the loop body of _coerce_numeric_columns
coerce_numeric_column(column) ==
    LET numeric == [i \in 1..Len(column.values) |->
                       to_numeric(column.values[i])]
        stripped == [i \in 1..Len(column.values) |->
                        extract_leading_number(astype_str(column.values[i]))]
        stripped_numeric == [i \in 1..Len(column.values) |->
                                to_numeric(stripped[i])]
    IN  IF mostly_numbers(numeric)
        THEN [column EXCEPT !.dtype = "number", !.values = numeric]
        ELSE IF mostly_numbers(stripped_numeric)
        THEN [column EXCEPT !.dtype = "number", !.values = stripped_numeric]
        ELSE column

coerce_numeric_columns(df) == [c \in 1..Len(df) |-> coerce_numeric_column(df[c])]

\* " ".join(text.split()) of a stripped text
RECURSIVE join_words(_, _)
join_words(text, joined) ==
    IF text = <<>> THEN joined
    ELSE IF IsSpace(Head(text))
    THEN join_words(lstrip(text), joined \o <<" ">>)
    ELSE join_words(Tail(text), Append(joined, Head(text)))

\* _normalize_text
normalize_text(value) == join_words(strip(astype_str(value)), <<>>)

\* list(df.columns)
column_names(df) == [c \in 1..Len(df) |-> df[c].name]

\* len(df)
frame_length(df) == IF df = <<>> THEN 0 ELSE Len(df[1].values)

\* set(df.select_dtypes(include="number").columns)
numeric_columns(df) == {df[c].name : c \in {k \in 1..Len(df) : df[k].dtype = "number"}}

\* df[str_cols].map(_normalize_text), row by row
normalized_rows(df, str_cols) ==
    [r \in 1..frame_length(df) |->
        [k \in 1..Len(str_cols) |-> normalize_text(df[str_cols[k]].values[r])]]

\* the frames sorted by their string columns are equal: every row occurs
\* as often in the one as in the other
same_rows_sorted(left_rows, right_rows) ==
    /\ Len(left_rows) = Len(right_rows)
    /\ \A r \in 1..Len(left_rows) :
          Cardinality({k \in 1..Len(left_rows) : left_rows[k] = left_rows[r]})
              = Cardinality({k \in 1..Len(right_rows) :
                                right_rows[k] = left_rows[r]})

\* _check_structure, of two frames
check_structure(left_table, right_table) ==
    IF column_names(left_table) # column_names(right_table)
    THEN "column mismatch"
    ELSE IF frame_length(left_table) # frame_length(right_table)
    THEN "row count mismatch"
    ELSE LET left_c == coerce_numeric_columns(left_table)
             right_c == coerce_numeric_columns(right_table)
             left_numeric == numeric_columns(left_c)
             str_cols == SelectSeq([c \in 1..Len(left_c) |-> c],
                                   LAMBDA c : left_c[c].name \notin left_numeric)
             left_str == normalized_rows(left_c, str_cols)
             right_str == normalized_rows(right_c, str_cols)
         IN  IF left_numeric # numeric_columns(right_c)
             THEN "column type mismatch"
             ELSE IF str_cols = <<>> THEN "None"
             ELSE IF left_str = right_str THEN "None"
             ELSE IF same_rows_sorted(left_str, right_str)
             THEN "row order differs"
             ELSE "string content differs"

ComparisonResult(structure_match, summary) ==
    [structure_match |-> structure_match, summary |-> summary]

\* lines 45-68 of compare_html_tables, of the tables read from both files
compare_tables_read(left_tables, right_tables) ==
    IF Len(left_tables) # Len(right_tables)
    THEN ComparisonResult(FALSE, [kind |-> "table count mismatch",
                                  left_count |-> Len(left_tables),
                                  right_count |-> Len(right_tables)])
    ELSE LET differing == {idx \in 1..Len(left_tables) :
                              check_structure(left_tables[idx],
                                              right_tables[idx]) # "None"}
         IN  IF differing # {}
             THEN LET first == CHOOSE idx \in differing :
                                   \A other \in differing : idx <= other
                  IN  ComparisonResult(
                          FALSE,
                          [kind |-> "structure mismatch",
                           index |-> first - 1,
                           mismatch |-> check_structure(left_tables[first],
                                                        right_tables[first])])
             ELSE ComparisonResult(TRUE, [kind |-> "all tables identical",
                                          count |-> Len(left_tables)])

\* compare_html_tables: the result, or the error of a file that is missing
\* or holds no HTML table
compare_html_tables(left_file, right_file) ==
    IF left_file = Absent \/ right_file = Absent
    THEN CliRaised("HtmlComparisonError")
    ELSE IF left_file.format # "html" \/ right_file.format # "html"
    THEN CliRaised("HtmlComparisonError")
    ELSE [raised |-> FALSE,
          comparison |-> compare_tables_read(read_html_tables(left_file.tables),
                                             read_html_tables(right_file.tables))]

---------------------------------------------------------------------------
(* The files and the pair lists the command is run on                      *)

\* two tables whose columns differ
TableOne == <<HtmlColumn("c", <<<<"a">>, <<"1">>>>)>>
TableTwo == <<HtmlColumn("d", <<<<"a">>, <<"1">>>>)>>

Structures == {TableOne, TableTwo}

\* the paths of the file system
RtfA == [dir |-> "a", stem |-> "t", suffix |-> ".rtf"]
RtfB == [dir |-> "b", stem |-> "t", suffix |-> ".rtf"]
RtfUpper == [dir |-> "a", stem |-> "u", suffix |-> ".RTF"]
HtmlA == [dir |-> "a", stem |-> "t", suffix |-> ".html"]
HtmlB == [dir |-> "b", stem |-> "u", suffix |-> ".html"]

FilePaths == {RtfA, RtfB, RtfUpper, HtmlA, HtmlB}

Stems == {p.stem : p \in FilePaths}

\* the file of the format its suffix names
FileOf(path, tables) ==
    IF lower_suffix(path) = ".rtf" THEN RtfFile(tables) ELSE HtmlFile(tables)

\* file systems: all files alike, the files of the two directories
\* differing, the files of the two stems differing in their table count,
\* and one with a file missing
FileSystems ==
    {[p \in FilePaths |-> FileOf(p, <<TableOne>>)],
     [p \in FilePaths |->
         FileOf(p, IF p.dir = "a" THEN <<TableOne>> ELSE <<TableTwo>>)],
     [p \in FilePaths |->
         FileOf(p, IF p.stem = "t" THEN <<TableOne>> ELSE <<TableOne, TableTwo>>)],
     [p \in FilePaths |->
         IF p = RtfUpper THEN Absent
         ELSE FileOf(p, IF p.dir = "a" THEN <<TableOne>> ELSE <<TableTwo, TableOne>>)]}

\* the path texts of the input: every path, and one written with "./"
PathTexts ==
    {path_str(p) : p \in FilePaths} \cup
    {PathText(TRUE, HtmlB.dir, HtmlB.stem, HtmlB.suffix)}

Pairs == [left_path : PathTexts, right_path : PathTexts]

PairLists == UNION {[1..n -> Pairs] : n \in 0..MaxPairs}

EmptyTmp == [stem \in Stems |-> Absent]

\* tables of one column of three cells: numbers and words in every mix
ColumnTables ==
    {<<HtmlColumn("c", cells)>> :
        cells \in [1..3 -> {<<"1">>, <<"2">>, <<"a">>, <<"b">>}]}

\* tables of other shapes: an empty cell, numbers before a unit, two and
\* four rows, another column name, two columns
OtherTables ==
    {<<HtmlColumn("c", <<<<"1">>, <<>>, <<>>>>)>>,
     <<HtmlColumn("c", <<<<"2">>, <<>>, <<"a">>>>)>>,
     <<HtmlColumn("c", <<<<"1", " ", "a">>, <<"2", " ", "a">>, <<"a">>>>)>>,
     <<HtmlColumn("c", <<<<"2", " ", "a">>, <<"2", " ", "b">>, <<"a">>>>)>>,
     <<HtmlColumn("c", <<<<"1">>, <<"a">>>>)>>,
     <<HtmlColumn("c", <<<<"1">>, <<"2">>, <<"a">>, <<"b">>>>)>>,
     <<HtmlColumn("d", <<<<"1">>, <<"2">>, <<"a">>>>)>>,
     <<HtmlColumn("c", <<<<"a">>, <<"b">>, <<"a">>>>),
       HtmlColumn("d", <<<<"1">>, <<"2">>, <<"1">>>>)>>,
     <<HtmlColumn("c", <<<<"b">>, <<"a">>, <<"a">>>>),
       HtmlColumn("d", <<<<"2">>, <<"2">>, <<"b">>>>)>>,
     <<HtmlColumn("c", <<<<"a">>, <<"b">>, <<"a">>>>),
       HtmlColumn("d", <<<<"b">>, <<"a">>, <<"a">>>>)>>,
     <<HtmlColumn("c", <<<<"a">>, <<"a">>, <<"b">>>>),
       HtmlColumn("d", <<<<"a">>, <<"b">>, <<"a">>>>)>>}

\* the tables of a file: one table, or one or two of a few
FewTables ==
    {<<HtmlColumn("c", <<<<"1">>, <<"a">>, <<"b">>>>)>>,
     <<HtmlColumn("c", <<<<"2">>, <<"a">>, <<"b">>>>)>>,
     <<HtmlColumn("c", <<<<"1">>, <<"2">>, <<"a">>>>)>>,
     <<HtmlColumn("d", <<<<"1">>, <<"2">>>>)>>}

TableLists ==
    {<<table>> : table \in ColumnTables \cup OtherTables}
        \cup [1..2 -> FewTables]

\* the pair of the two HTML files, over file systems that hold any two
\* table lists at its paths
HtmlPair == [left_path |-> path_str(HtmlA), right_path |-> path_str(HtmlB)]

TableFileSystems ==
    {[p \in FilePaths |->
         IF p = HtmlA THEN HtmlFile(left_tables)
         ELSE IF p = HtmlB THEN HtmlFile(right_tables)
         ELSE FileOf(p, <<TableOne>>)] :
        left_tables \in TableLists, right_tables \in TableLists}

\* the runs of the command: every pair list over the few file systems, and
\* the pair of HTML files over the file systems of tables
CliInputs ==
    [pairs : PairLists, file_system : FileSystems]
        \cup [pairs : {<<HtmlPair>>}, file_system : TableFileSystems]

---------------------------------------------------------------------------
(* The compare command                                                     *)

CliInit ==
    /\ \E input \in CliInputs :
          /\ cli_pairs = input.pairs
          /\ files = input.file_system
    /\ soffice_available \in BOOLEAN
    /\ tmp_files = EmptyTmp
    /\ pair_index = 1
    /\ cli_rows = <<>>
    /\ cli_pc = "pairs"
    /\ output = NoResult
    /\ CompareIdle
    /\ LoadIdle
    /\ TokenIdle

\* lines 32-47: one pass of the loop over the pairs; an error ends the
\* command, and leaving the with block removes the temporary directory
ComparePair ==
    /\ cli_pc = "pairs"
    /\ pair_index <= Len(cli_pairs)
    /\ LET left_path == Path(cli_pairs[pair_index].left_path)
           right_path == Path(cli_pairs[pair_index].right_path)
           left_html == ensure_html(left_path, files, tmp_files,
                                    soffice_available)
           right_html == ensure_html(right_path, files, left_html.tmp,
                                     soffice_available)
           compared_files ==
               compare_html_tables(
                   file_at(left_html.location, files, right_html.tmp),
                   file_at(right_html.location, files, right_html.tmp))
       IN  IF left_html.raised
           THEN /\ cli_pc' = "failed"
                /\ output' = CliRaised(left_html.error)
                /\ tmp_files' = EmptyTmp
                /\ UNCHANGED <<pair_index, cli_rows>>
           ELSE IF right_html.raised
           THEN /\ cli_pc' = "failed"
                /\ output' = CliRaised(right_html.error)
                /\ tmp_files' = EmptyTmp
                /\ UNCHANGED <<pair_index, cli_rows>>
           ELSE IF compared_files.raised
           THEN /\ cli_pc' = "failed"
                /\ output' = CliRaised(compared_files.error)
                /\ tmp_files' = EmptyTmp
                /\ UNCHANGED <<pair_index, cli_rows>>
           ELSE /\ cli_rows' = Append(cli_rows,
                       [left_path |-> path_str(left_path),
                        right_path |-> path_str(right_path),
                        structure_match |->
                            compared_files.comparison.structure_match,
                        summary |-> compared_files.comparison.summary])
                /\ pair_index' = pair_index + 1
                /\ tmp_files' = right_html.tmp
                /\ UNCHANGED <<cli_pc, output>>
    /\ UNCHANGED <<cli_pairs, files, soffice_available>>

\* line 49, after the loop and the with block
WriteOutput ==
    /\ cli_pc = "pairs"
    /\ pair_index > Len(cli_pairs)
    /\ output' = [kind |-> "written", rows |-> cli_rows]
    /\ tmp_files' = EmptyTmp
    /\ cli_pc' = "done"
    /\ UNCHANGED <<cli_pairs, files, soffice_available, pair_index, cli_rows>>

CliNext ==
    \/ ComparePair /\ UNCHANGED <<compareVars, loadVars, tokenVars>>
    \/ WriteOutput /\ UNCHANGED <<compareVars, loadVars, tokenVars>>

SpecCli == CliInit /\ [][CliNext]_vars

---------------------------------------------------------------------------
(* What the claims about load_rtf_table speak of                           *)

Loaded == load_pc = "done" /\ load_result.kind = "returned"

Distinct(names) ==
    \A i, j \in 1..Len(names) : names[i] = names[j] => i = j

---------------------------------------------------------------------------
\* C1: the table load_rtf_table returns has as many columns as the
\* sub-header row has cells, and each of its columns holds as many values
\* as there are body rows that survive normalization.
C1_TableShape ==
    Loaded
        => /\ Len(load_result.table) = Len(rows[2].cells)
           /\ \A k \in 1..Len(load_result.table) :
                 Len(load_result.table[k].values) = Len(body_rows)

---------------------------------------------------------------------------
\* C2: the column names the Composite Header Builder returns are pairwise
\* distinct.
C2_HeadersDistinct ==
    load_pc \in {"body", "table", "numeric", "done"} => Distinct(load_headers)

---------------------------------------------------------------------------
(* What the claims about compare_tables speak of                           *)

Done == pc = "done"

Identical == result.kind = "returned" /\ result.category = "identical"

StructureDifferences ==
    result.kind = "returned" /\ result.category = "structure_differences"

ValueMismatch == StructureDifferences /\ result.summary.what = "value"

\* every column of the table is as long as every other
Consistent(table) ==
    \A i, j \in 1..Len(table) : Len(table[i].values) = Len(table[j].values)

RowCount(table) == IF table = <<>> THEN 0 ELSE Len(table[1].values)

NonNegativeTolerances == abs_tol >= 0 /\ rel_tol >= 0

\* both tables are one column of one value
OnePair ==
    /\ Len(left) = 1 /\ Len(right) = 1
    /\ left[1].name = right[1].name
    /\ Len(left[1].values) = 1 /\ Len(right[1].values) = 1

LeftValue == left[1].values[1]
RightValue == right[1].values[1]

---------------------------------------------------------------------------
---------------------------------------------------------------------------
\* C4: when the column name sequences differ, also when they hold the same
\* names in another order, compare returns structure_differences with a
\* summary of the column mismatch that lists both column lists, whatever
\* the values and the options are.
C4_ColumnMismatchReported ==
    (Done /\ keys(left) # keys(right))
        => result = Returned("structure_differences",
                             [what |-> "columns",
                              left |-> keys(left), right |-> keys(right)])

\* the same names in another order, over a left table whose columns are of
\* two lengths, under a negative tolerance
C4_Witness ==
    /\ Done
    /\ keys(left) = <<"A", "B">> /\ keys(right) = <<"B", "A">>
    /\ ~Consistent(left)
    /\ abs_tol < 0
    /\ StructureDifferences

---------------------------------------------------------------------------
\* C5: when the column name sequences are equal, each table's columns are
\* all of one length and the two row counts differ, compare returns
\* structure_differences with a summary that states both row counts, and
\* it has compared no pair of values.
C5_RowCountMismatchReported ==
    (/\ Done /\ keys(left) = keys(right)
     /\ Consistent(left) /\ Consistent(right)
     /\ RowCount(left) # RowCount(right))
        => /\ result = Returned("structure_differences",
                                [what |-> "row_count",
                                 left |-> RowCount(left),
                                 right |-> RowCount(right)])
           /\ compared = <<>>

\* two columns of one row against the same two columns of two rows
C5_Witness ==
    /\ Done /\ keys(left) = <<"A", "B">> /\ keys(right) = keys(left)
    /\ Consistent(left) /\ Consistent(right)
    /\ RowCount(left) = 1 /\ RowCount(right) = 2
    /\ StructureDifferences /\ result.summary.what = "row_count"

---------------------------------------------------------------------------
\* The value v of a finite number, in 1/FloatScale units.
Magnitude(value) ==
    IF value.t = "int" THEN value.v * FloatScale ELSE value.v

Finite(value) == value.t = "int" \/ value.k = "fin"

\* |a - b| <= max(rel_tol * max(|a|, |b|), abs_tol), both sides multiplied
\* by FloatScale, of finite a and b
WithinTolerance(a, b) ==
    Abs(Magnitude(a) - Magnitude(b)) * FloatScale
        <= Max(rel_tol * Max(Abs(Magnitude(a)), Abs(Magnitude(b))),
               abs_tol * FloatScale)

\* The same inequality when a or b is infinite: of one infinity against
\* itself the difference is undefined, and the pair is read as within
\* tolerance; of any other pair |a - b| is infinite, and so is the right
\* side exactly when rel_tol > 0.
WithinToleranceExtended(a, b) ==
    IF Finite(a) /\ Finite(b) THEN WithinTolerance(a, b)
    ELSE IF a = b THEN TRUE
    ELSE rel_tol > 0

NumericPair ==
    /\ OnePair /\ NonNegativeTolerances
    /\ IsNumber(LeftValue) /\ IsNumber(RightValue)
    /\ LeftValue # NaN /\ RightValue # NaN

---------------------------------------------------------------------------
\* s in lower case, and s without its whitespace characters, defined apart
\* from the model's operators
RECURSIVE Lowered(_)
Lowered(s) ==
    IF s = <<>> THEN <<>>
    ELSE <<CASE Head(s) = "A" -> "a" [] Head(s) = "B" -> "b"
             [] Head(s) = "G" -> "g" [] OTHER -> Head(s)>> \o Lowered(Tail(s))

RECURSIVE Unspaced(_)
Unspaced(s) ==
    IF s = <<>> THEN <<>>
    ELSE IF Head(s) \in {" ", "\t", "\n"} THEN Unspaced(Tail(s))
    ELSE <<Head(s)>> \o Unspaced(Tail(s))

Folded(s) ==
    LET cased == IF ignore_case THEN Lowered(s) ELSE s
    IN  IF ignore_spaces THEN Unspaced(cased) ELSE cased

Grade3 == TextVal(<<"G", " ", "3">>)
grade3 == TextVal(<<"g", " ", " ", "3">>)

\* C7: two texts are equal to compare iff they are identical after
\* lower-casing both (under ignore_case only) and removing every whitespace
\* character from both (under ignore_spaces only); the options alter no
\* value that is not a text; "G 3" against "g  3" is identical under both
\* options and structure_differences under neither.
C7_TextEqualAfterFolding ==
    /\ (Done /\ OnePair /\ IsStr(LeftValue) /\ IsStr(RightValue))
          => /\ Identical <=> Folded(LeftValue.s) = Folded(RightValue.s)
             /\ ~Identical => ValueMismatch
             /\ (LeftValue = Grade3 /\ RightValue = grade3)
                   => /\ (ignore_case /\ ignore_spaces) => Identical
                      /\ (~ignore_case /\ ~ignore_spaces) => ValueMismatch
    /\ (pc \in {"scan", "done"} /\ normalized_left # <<>>)
          => /\ keys(normalized_left) = keys(left)
             /\ \A i \in 1..Len(left) :
                  /\ Len(normalized_left[i].values) = Len(left[i].values)
                  /\ \A j \in 1..Len(left[i].values) :
                       ~IsStr(left[i].values[j])
                          => normalized_left[i].values[j] = left[i].values[j]

\* "G 3" against "g  3" under both options
C7_Witness ==
    /\ Done /\ OnePair
    /\ LeftValue = Grade3 /\ RightValue = grade3
    /\ ignore_case /\ ignore_spaces
    /\ Identical

---------------------------------------------------------------------------
\* whether compare holds the pair at column ci, row ri unequal
PairUnequal(ci, ri) ==
    values_match(
        normalize_value(left[ci].values[ri], ignore_case, ignore_spaces),
        normalize_value(right[ci].values[ri], ignore_case, ignore_spaces),
        abs_tol, rel_tol) = "False"

ColumnHasUnequal(ci) == \E ri \in 1..RowCount(left) : PairUnequal(ci, ri)

Comparable ==
    /\ keys(left) = keys(right)
    /\ Consistent(left) /\ Consistent(right)
    /\ RowCount(left) = RowCount(right)
    /\ NonNegativeTolerances

\* the first column, in declared order, with an unequal pair
FirstUnequalColumn ==
    CHOOSE ci \in 1..Len(left) :
        /\ ColumnHasUnequal(ci)
        /\ \A cj \in 1..(ci - 1) : ~ColumnHasUnequal(cj)

\* the first row of that column with an unequal pair
FirstUnequalRow ==
    CHOOSE ri \in 1..RowCount(left) :
        /\ PairUnequal(FirstUnequalColumn, ri)
        /\ \A rj \in 1..(ri - 1) : ~PairUnequal(FirstUnequalColumn, rj)

---------------------------------------------------------------------------
\* C9: two nulls are equal and a null is unequal to every value that is not
\* null, under every choice of options.
C9_NullEquality ==
    (Done /\ OnePair)
        => /\ (IsNone(LeftValue) /\ IsNone(RightValue)) => Identical
           /\ (IsNone(LeftValue) # IsNone(RightValue)) => ValueMismatch

\* a null against NaN under negative tolerances
C9_Witness ==
    /\ Done /\ OnePair
    /\ LeftValue = Null /\ RightValue = NaN
    /\ abs_tol < 0 /\ rel_tol < 0
    /\ ValueMismatch

---------------------------------------------------------------------------
\* C10: when the column name sequences are equal and the columns of left
\* or of right are not all of one length, compare raises an error and
\* returns nothing; the error names the left table when left is
\* inconsistent, and the right table otherwise.
C10_InconsistentShapeRaises ==
    (Done /\ keys(left) = keys(right)
          /\ (~Consistent(left) \/ ~Consistent(right)))
        => result = Raised("ValueError",
                           IF ~Consistent(left) THEN "left" ELSE "right")

\* both tables are inconsistent: the error names left
C10_Witness ==
    /\ Done /\ keys(left) = keys(right)
    /\ ~Consistent(left) /\ ~Consistent(right)
    /\ result.kind = "raised" /\ result.label = "left"


---------------------------------------------------------------------------
---------------------------------------------------------------------------
(* What the claims about the body rows speak of                            *)

\* the body normalizer has run on a document of three rows or more
BodyNormalized == Len(rows) >= 3 /\ load_pc \in {"table", "numeric", "done"}

BodyRowsRaised(label) ==
    load_pc = "done" /\ load_result.kind = "raised" /\ load_result.label = label

\* the rows of the document after its two header rows
DocumentBody == SubSeq(rows, 3, Len(rows))

HeaderDuplicate(row) ==
    row_texts(row.cells) \in {header_top, header_sub}

\* the body rows that repeat neither header row
NotHeaderDuplicates == SelectSeq(DocumentBody, LAMBDA row : ~HeaderDuplicate(row))

TargetWidth == Len(load_headers)

---------------------------------------------------------------------------
\* C12: a body row whose cell texts equal the texts of the top or of the
\* sub header row is dropped wherever and however often it occurs: the
\* outcome of the body normalizer is the outcome on the document without
\* those rows, and the rows it keeps are no more than the other rows.
C12_HeaderDuplicatesDropped ==
    BodyNormalized
        => LET without == normalize_from(NotHeaderDuplicates, TargetWidth,
                                         load_stub_column_span, 1, <<>>)
           IN  IF BodyRowsRaised("inconsistent row width")
               THEN without.raised
               ELSE IF BodyRowsRaised("no body rows")
               THEN ~without.raised /\ without.rows = <<>>
               ELSE /\ ~without.raised
                    /\ body_rows = without.rows
                    /\ Len(body_rows) <= Len(NotHeaderDuplicates)

\* a table is returned from a document whose body repeats a header row
\* before a row that is kept
C12_Witness ==
    /\ Loaded
    /\ Len(rows) = 4
    /\ HeaderDuplicate(rows[3])
    /\ ~HeaderDuplicate(rows[4])
    /\ Len(body_rows) = 1

---------------------------------------------------------------------------
\* the body rows that repeat no header row and have the target width, in
\* the order of the document
KeptRows ==
    SelectSeq(NotHeaderDuplicates, LAMBDA row : Len(row.cells) = TargetWidth)

FirstText(row) == row.cells[1].text

\* the last non-empty first-cell text among the kept rows before row k
TrackedLabel(k) ==
    LET labelled == {j \in 1..(k - 1) : FirstText(KeptRows[j]) # <<>>}
    IN  IF labelled = {} THEN <<>>
        ELSE FirstText(KeptRows[CHOOSE j \in labelled :
                                    \A i \in labelled : i <= j])

BlankContinuation(row) ==
    FirstText(row) = <<>> /\ row.cells[1].v_merge_continue

\* C13: a kept body row with a blank first cell flagged
\* vertical-merge-continue takes the last non-empty first-cell text before it
\* when the stub column span is 1; with a span of 2 or more, or without the
\* flag, the row keeps its own texts.
C13_BackfillOnlyUnderSingleStub ==
    (BodyNormalized /\ body_rows # <<>>)
        => /\ Len(body_rows) = Len(KeptRows)
           /\ \A k \in 1..Len(KeptRows) :
                 LET row == KeptRows[k]
                     texts == row_texts(row.cells)
                 IN  IF BlankContinuation(row) /\ load_stub_column_span = 1
                     THEN body_rows[k] = [texts EXCEPT ![1] = TrackedLabel(k)]
                     ELSE body_rows[k] = texts

\* under a stub span of 1: a labelled row, a blank row without the flag that
\* stays blank, then a blank flagged row that takes the label
C13_Witness ==
    /\ Loaded
    /\ load_stub_column_span = 1
    /\ Len(KeptRows) = 3
    /\ FirstText(KeptRows[1]) # <<>>
    /\ FirstText(KeptRows[2]) = <<>> /\ ~KeptRows[2].cells[1].v_merge_continue
    /\ BlankContinuation(KeptRows[3])
    /\ body_rows[2][1] = <<>>
    /\ body_rows[3][1] = FirstText(KeptRows[1])

---------------------------------------------------------------------------
\* among the rows that repeat no header row, a row of another width stands
\* before a row of the target width
Interleaved ==
    \E i, j \in 1..Len(NotHeaderDuplicates) :
        /\ i < j
        /\ Len(NotHeaderDuplicates[i].cells) # TargetWidth
        /\ Len(NotHeaderDuplicates[j].cells) = TargetWidth

\* C14: once the header duplicates are removed, the body normalizer raises
\* for inconsistent width exactly when a row of another width stands before
\* a row of the target width; when it does not, the rows of another width
\* are dropped and every row it returns has the target width.
C14_WidthMismatchRaisesOrDrops ==
    BodyNormalized
        => /\ BodyRowsRaised("inconsistent row width") <=> Interleaved
           /\ ~Interleaved
                 => /\ Len(body_rows) = Len(KeptRows)
                    /\ \A k \in 1..Len(body_rows) :
                          Len(body_rows[k]) = TargetWidth

\* a table is returned from a body whose last row, of another width, was
\* dropped
C14_Witness ==
    /\ Loaded
    /\ Len(NotHeaderDuplicates) = 2
    /\ Len(NotHeaderDuplicates[1].cells) = TargetWidth
    /\ Len(NotHeaderDuplicates[2].cells) # TargetWidth
    /\ Len(body_rows) = 1

\* the normalizer raised on a row of another width before a row of the
\* target width
C14_RaisedWitness ==
    /\ BodyRowsRaised("inconsistent row width")
    /\ Len(NotHeaderDuplicates) = 2
    /\ Len(NotHeaderDuplicates[1].cells) # TargetWidth
    /\ Len(NotHeaderDuplicates[2].cells) = TargetWidth

---------------------------------------------------------------------------
LoadRaised(label) ==
    /\ load_result = Raised("ValueError", label)
    /\ raw_table = NoTable

\* C15: load_rtf_table raises, and hands out no table, when the document
\* has fewer than 3 rows and when no body row is left once header
\* duplicates and rows of another width are gone.
C15_TooFewRowsRaises ==
    load_pc = "done"
        => /\ Len(rows) < 3 => LoadRaised("not enough rows")
           /\ (Len(rows) >= 3 /\ KeptRows = <<>>) => LoadRaised("no body rows")

\* the call has raised on a document whose body rows are a repeated header
\* row and a row of another width
C15_Witness ==
    /\ load_pc = "done"
    /\ Len(rows) = 4
    /\ HeaderDuplicate(rows[3])
    /\ Len(rows[4].cells) # TargetWidth
    /\ LoadRaised("no body rows")

\* the call has raised on a document of fewer than 3 rows
C15_ShortWitness ==
    load_pc = "done" /\ Len(rows) < 2 /\ LoadRaised("not enough rows")

---------------------------------------------------------------------------
(* What the claims about the numeric inference speak of                    *)

\* an optional sign followed by digits, and nothing else
IntegerLiteral(s) ==
    \/ s # <<>> /\ \A i \in 1..Len(s) : IsDigit(s[i])
    \/ /\ Len(s) >= 2
       /\ s[1] \in {"+", "-"}
       /\ \A i \in 2..Len(s) : IsDigit(s[i])

\* the rows at which a column of the assembled table holds a value
NonNull(values) == {r \in 1..Len(values) : ~IsNone(values[r])}

AllIntegerLiterals(values) ==
    NonNull(values) # {} /\ \A r \in NonNull(values) : IntegerLiteral(values[r].s)

AllFiniteDecimals(values) ==
    NonNull(values) # {} /\ \A r \in NonNull(values) : can_parse_float(values[r].s)

\* the types of the values a column holds
TypesOf(values) == {values[r].t : r \in NonNull(values)}

\* C16: a column is integer exactly when it has a non-null value and all
\* its non-null values are integer literals; failing that it is float
\* exactly when it has a non-null value and all of them parse as finite
\* decimal numbers; failing that all its non-null values stay the texts they
\* were.  No column mixes integer, float and text values.
C16_InferenceAllOrNothing ==
    Loaded
        => \A k \in 1..Len(raw_table) :
              LET before == raw_table[k].values
                  after == load_result.table[k].values
              IN  /\ Cardinality(TypesOf(after)) <= 1
                  /\ IF AllIntegerLiterals(before)
                     THEN TypesOf(after) = {"int"}
                     ELSE IF AllFiniteDecimals(before)
                     THEN TypesOf(after) = {"float"}
                     ELSE /\ TypesOf(after) \subseteq {"text"}
                          /\ after = before

\* a table is returned with a column of an integer literal, a decimal and
\* a word, which stayed the texts they were
C16_Witness ==
    /\ Loaded
    /\ \E k \in 1..Len(raw_table) :
          LET before == raw_table[k].values
          IN  /\ \E r \in NonNull(before) : IntegerLiteral(before[r].s)
              /\ \E r \in NonNull(before) :
                    ~IntegerLiteral(before[r].s) /\ can_parse_float(before[r].s)
              /\ \E r \in NonNull(before) : ~can_parse_float(before[r].s)
              /\ load_result.table[k].values = before

\* a table is returned with a column of integers and nulls and no other
C16_IntegerWitness ==
    /\ Loaded
    /\ \E k \in 1..Len(raw_table) :
          /\ \E r \in 1..Len(raw_table[k].values) : IsNone(raw_table[k].values[r])
          /\ TypesOf(load_result.table[k].values) = {"int"}

---------------------------------------------------------------------------
\* str(n) of an integer
int_str(n) == IF n < 0 THEN <<"-">> \o str_int(-n) ELSE str_int(n)

\* C17: in every column inferred as integer, the decimal string of each
\* parsed value is the text of the cell it was parsed from.
C17_IntegerRoundTrip ==
    Loaded
        => \A k \in 1..Len(raw_table) :
              LET before == raw_table[k].values
                  after == load_result.table[k].values
              IN  TypesOf(after) = {"int"}
                     => \A r \in NonNull(after) :
                           int_str(after[r].v) = before[r].s

---------------------------------------------------------------------------
\* the column of the returned table under the name of header k
ColumnOf(k) == lookup(load_result.table, load_headers[k])

\* what the cell text can have become in the table
ValuesOfText(text) ==
    IF text = <<>> THEN {Null}
    ELSE {TextVal(text)}
            \cup (IF can_parse_int(text) THEN {parse_int(text)} ELSE {})
            \cup (IF can_parse_float(text) THEN {parse_float(text)} ELSE {})

\* C18: in the returned table the value at a column and a row is null
\* exactly when the normalized body cell at that column and row is empty,
\* every column is as long as the body and holds, row by row, what its
\* cells became; the type inference keeps each column's length and its
\* nulls where they were.
C18_NullsExactlyAtEmptyCells ==
    Loaded
        => /\ \A k \in 1..Len(load_headers) :
                 /\ Len(ColumnOf(k)) = Len(body_rows)
                 /\ \A r \in 1..Len(body_rows) :
                       /\ IsNone(ColumnOf(k)[r]) <=> body_rows[r][k] = <<>>
                       /\ ColumnOf(k)[r] \in ValuesOfText(body_rows[r][k])
           /\ \A k \in 1..Len(raw_table) :
                 LET before == raw_table[k].values
                     after == load_result.table[k].values
                 IN  /\ Len(after) = Len(before)
                     /\ \A r \in 1..Len(before) :
                           IsNone(after[r]) <=> IsNone(before[r])

---------------------------------------------------------------------------
(* What the claims about the row tokenizer speak of                        *)

Tokenized == token_pc = "done"

\* C19: the row tokenizer never fails: on every document, one of malformed
\* markup or of Unicode escapes with any digits included, it returns a
\* sequence of rows, which may be empty, and raises nothing.
C19_TokenizerNeverRaises == Tokenized => ~token_result.raised

---------------------------------------------------------------------------
(* What the claims about the compare command speak of                      *)

CliDone == cli_pc = "done"

\* a path ending in .rtf, in the letter case line 54 accepts
EndsInRtf(path) == lower_suffix(path) = ".rtf"

\* the HTML file the command is to compare for a path: the conversion of
\* the file when the path ends in .rtf, the file as given otherwise
HtmlFor(path) ==
    IF EndsInRtf(path) THEN HtmlFile(files[path].tables) ELSE files[path]

\* the result row of a pair: its two paths and the comparison of its two
\* files
RowFor(pair) ==
    LET comparison ==
            compare_tables_read(
                read_html_tables(HtmlFor(Path(pair.left_path)).tables),
                read_html_tables(HtmlFor(Path(pair.right_path)).tables))
    IN  [left_path |-> path_str(Path(pair.left_path)),
         right_path |-> path_str(Path(pair.right_path)),
         structure_match |-> comparison.structure_match,
         summary |-> comparison.summary]

\* C20: when every pair is processed without error, the command writes one
\* result row per pair, in the order of the input, each with the left
\* path, the right path, the match flag and the summary of the comparison
\* of that pair, where a path ending in .rtf is converted to HTML first
\* and any other path is compared as given.
C20_OneRowPerPair ==
    CliDone =>
        /\ Len(output.rows) = Len(cli_pairs)
        /\ \A k \in 1..Len(cli_pairs) : output.rows[k] = RowFor(cli_pairs[k])

---------------------------------------------------------------------------
\* C21: when compare reports a value mismatch, the two values of the summary
\* are the values the left and the right table hold at that column and row,
\* as they were given, under ignore_case and ignore_spaces too.
C21_SummaryShowsRawValues ==
    (Done /\ ValueMismatch) =>
        /\ result.summary.left_value =
               lookup(left, result.summary.column)[result.summary.row_index + 1]
        /\ result.summary.right_value =
               lookup(right, result.summary.column)[result.summary.row_index + 1]

---------------------------------------------------------------------------
\* the row block the next pass of the tokenizer's loop reads
NextRowBlock == next_row_match(rtf_text, scan_position).body

\* the merge flags a cell definition carries
FlagsOf(cell_def) ==
    [h_merge_start |-> contains(cell_def, CLMGF),
     h_merge_continue |-> contains(cell_def, CLMRG),
     v_merge_start |-> contains(cell_def, CLVMGF),
     v_merge_continue |-> contains(cell_def, CLVMRG)]

\* the cells are aligned with the definitions: no more cells than
\* definitions, each cell with the flags of the definition at its index
AlignedWith(row, cell_defs) ==
    /\ Len(row.cells) <= Len(cell_defs)
    /\ \A k \in 1..Len(row.cells) :
          k <= Len(cell_defs) =>
              [f \in DOMAIN FlagsOf(cell_defs[k]) |-> row.cells[k][f]]
                  = FlagsOf(cell_defs[k])

\* C22: every tokenized row has its cells aligned one to one with the cell
\* definitions of its row block: fragments beyond the number of definitions
\* are ignored, so a row never has more cells than definitions, and every
\* cell has the merge flags of the definition at its index.
C22_CellsAlignedWithDefinitions ==
    [][Len(token_rows') > Len(token_rows) =>
          AlignedWith(token_rows'[Len(token_rows')],
                      parse_cell_definitions(NextRowBlock))]_vars

---------------------------------------------------------------------------
\* the digits of the Unicode escapes among the cell fragments
EscapeNumerals ==
    {<<"6", "5">>, <<"-", "3">>, <<"-", "6", "5", "5", "3", "6">>,
     <<"1", "1", "1", "4", "1", "1", "1">>,
     <<"1", "1", "1", "4", "1", "1", "2">>,
     <<"-", "6", "5", "5", "3", "7">>}

\* the document of one row of one cell that holds the fragment
FragmentDocument(fragment) ==
    <<"{">> \o row_text(plain_definitions(1), <<fragment>>, ROW) \o <<"}">>

\* the document of one row whose one cell holds the escape of the numeral
EscapeDocument(numeral) ==
    FragmentDocument(<<Backslash, "u">> \o numeral \o <<"?">>)

\* the code point the escape of the number n stands for: n modulo 65536
\* when n is negative, n itself otherwise
CodePointOf(n) == IF n < 0 THEN n % 65536 ELSE n

\* C23: a Unicode escape with a negative number n is decoded as the
\* character of the code point n modulo 65536, for every negative n the
\* escape syntax admits, and one with a non-negative code point n as the
\* character of n.
C23_NegativeEscapesWrap ==
    Tokenized =>
        \A numeral \in EscapeNumerals :
            (/\ rtf_text = EscapeDocument(numeral)
             /\ CodePointOf(int_of(numeral)) <= MaxCodePoint) =>
                /\ ~token_result.raised
                /\ token_result.rows =
                       <<ParsedRow(<<Plain(<<chr(CodePointOf(int_of(numeral)))>>)>>)>>

---------------------------------------------------------------------------
\* fragments of plain characters and escaped literals
EscapedLiteralFragments ==
    {<<Backslash, "{", "x", Backslash, "}">>,
     <<Backslash, Backslash, "p", "a", "r", " ", "x">>,
     <<Backslash, Backslash, " ", "x">>}

\* the text of such a fragment from index i on: every escaped brace or
\* backslash stands for its literal character
RECURSIVE literal_text_from(_, _, _)
literal_text_from(fragment, i, text) ==
    IF i > Len(fragment) THEN text
    ELSE IF /\ fragment[i] = Backslash
            /\ i < Len(fragment)
            /\ fragment[i + 1] \in {"{", "}", Backslash}
    THEN literal_text_from(fragment, i + 2, Append(text, fragment[i + 1]))
    ELSE literal_text_from(fragment, i + 1, Append(text, fragment[i]))

\* C24: cleaning a cell unescapes the escaped literals: every escaped
\* opening brace, closing brace and backslash of a fragment gives its
\* literal character to the cleaned text, and the stripping of control
\* words and group braces that follows does not take it away.
C24_EscapedLiteralsKept ==
    Tokenized =>
        \A fragment \in EscapedLiteralFragments :
            rtf_text = FragmentDocument(fragment) =>
                /\ ~token_result.raised
                /\ token_result.rows =
                       <<ParsedRow(<<Plain(literal_text_from(fragment, 1, <<>>))>>)>>

----------------------------------------------------------------------------
(* Group labels spread over the measurement columns                        *)

HeadersBuilt ==
    load_pc \in {"body", "table", "numeric", "done"} /\ Len(rows) >= 3

StubCount == infer_header_stub_column_count(header_sub)
GroupCount == Len(header_top) - StubCount
MeasureCount == Len(header_sub) - StubCount

\* Header-Top neither as wide as Header-Sub nor a single cell, its group
\* labels dividing the measurement columns evenly
GroupedCase ==
    /\ HeadersBuilt
    /\ Len(header_top) # Len(header_sub)
    /\ Len(header_top) # 1
    /\ GroupCount > 0
    /\ MeasureCount % GroupCount = 0

ExpandedTop == expand_header_row(header_top, Len(header_sub), StubCount)

\* the stub cells, then each group label MeasureCount / GroupCount times
SpreadTop ==
    [i \in 1..Len(header_sub) |->
        IF i <= StubCount THEN header_top[i]
        ELSE header_top[StubCount + 1 +
                 ((i - StubCount - 1) \div (MeasureCount \div GroupCount))]]

ComposedNames ==
    [i \in 1..Len(header_sub) |->
        compose_header_name(i, ExpandedTop[i], header_sub[i])]

NoMergeFlag ==
    \A i \in 1..Len(rows[1].cells) :
        ~rows[1].cells[i].h_merge_start /\ ~rows[1].cells[i].h_merge_continue

----------------------------------------------------------------------------
(* Labels carried over horizontally merged Header-Top cells                *)

\* the flags at a position of the expanded Header-Top are those of the
\* Header-Top cell parsed at that position, none when there is no such cell
FlaggedStart(i) ==
    i <= Len(rows[1].cells) /\ rows[1].cells[i].h_merge_start

FlaggedContinue(i) ==
    /\ ~FlaggedStart(i)
    /\ i <= Len(rows[1].cells)
    /\ rows[1].cells[i].h_merge_continue

OwnText(i) == strip(ExpandedTop[i])

\* the positions left of i that set the active label
LabelSetters(i) ==
    {j \in 1..(i - 1) :
        \/ FlaggedStart(j)
        \/ ~FlaggedContinue(j) /\ OwnText(j) # <<>>}

ActiveLabel(i) ==
    IF LabelSetters(i) = {} THEN <<>>
    ELSE OwnText(CHOOSE j \in LabelSetters(i) :
                     \A k \in LabelSetters(i) : k <= j)

MergedTop ==
    apply_horizontal_merge_labels(ExpandedTop, rows[1].cells, Len(header_sub))

\* C26: scanning the expanded Header-Top from the left, a cell flagged
\* merge-start keeps its own text, which becomes the active label; a cell
\* flagged merge-continue takes the active label, or its own text when
\* there is none; a cell with neither flag keeps its own text, which
\* becomes the active label only when it is not empty.  The result is as
\* wide as Header-Sub, and the column names are composed from it.
C26_MergeLabelsPropagate ==
    HeadersBuilt =>
        /\ Len(MergedTop) = Len(header_sub)
        /\ \A i \in 1..Len(header_sub) :
              MergedTop[i] = IF FlaggedContinue(i) /\ ActiveLabel(i) # <<>>
                             THEN ActiveLabel(i)
                             ELSE OwnText(i)
        /\ load_headers =
               deduplicate_headers(
                   [i \in 1..Len(header_sub) |->
                       compose_header_name(i, MergedTop[i], header_sub[i])])

\* a merge-continue cell with a text of its own takes the label of the
\* merge-start cell on its left
C26_Witness ==
    /\ Loaded
    /\ Len(header_sub) >= 2
    /\ FlaggedStart(1)
    /\ FlaggedContinue(2)
    /\ OwnText(1) = <<"n">>
    /\ OwnText(2) = <<"n", "_", "_", "2">>
    /\ header_sub[2] = <<"x">>
    /\ load_headers[2] = <<"n">> \o Separator \o <<"x">>

\* a merge-continue cell with no active label on its left keeps its own text
C26_NoActiveWitness ==
    /\ Loaded
    /\ Len(header_sub) >= 2
    /\ OwnText(1) = <<>>
    /\ ~FlaggedStart(1)
    /\ FlaggedContinue(2)
    /\ OwnText(2) = <<"n">>
    /\ load_headers[2] = <<"n">> \o Separator \o <<"x">>

----------------------------------------------------------------------------
(* Repeated column names                                                   *)

\* the names as composed, before deduplication
ComposedHeaders ==
    [i \in 1..Len(header_sub) |->
        compose_header_name(i, MergedTop[i], header_sub[i])]

\* how many of the first i composed names equal the i-th
Occurrence(i) ==
    Cardinality({j \in 1..i : ComposedHeaders[j] = ComposedHeaders[i]})

DecimalDigit(k) == <<"1", "2", "3", "4", "5", "6", "7", "8", "9">>[k]

\* C27: deduplication leaves the first occurrence of a composed name as it
\* is and renames its k-th occurrence from the left (k >= 2) to the name
\* followed by '__k'; the columns keep their number and their order.
C27_DeduplicationSuffixes ==
    HeadersBuilt =>
        /\ Len(load_headers) = Len(ComposedHeaders)
        /\ \A i \in 1..Len(ComposedHeaders) :
              load_headers[i] =
                  IF Occurrence(i) = 1 THEN ComposedHeaders[i]
                  ELSE ComposedHeaders[i] \o <<"_", "_">> \o
                       <<DecimalDigit(Occurrence(i))>>

\* one name three times over
C27_Witness ==
    /\ HeadersBuilt
    /\ Len(ComposedHeaders) = 3
    /\ ComposedHeaders = <<<<"n">>, <<"n">>, <<"n">>>>
    /\ load_headers = <<<<"n">>, <<"n", "_", "_", "2">>, <<"n", "_", "_", "3">>>>

----------------------------------------------------------------------------
(* What compare_html_tables reports of two files of tables                 *)

\* the command compared the two HTML files and wrote its row
HtmlCompared ==
    /\ CliDone
    /\ cli_pairs = <<HtmlPair>>
    /\ output.kind = "written"

LeftTables == files[HtmlA].tables
RightTables == files[HtmlB].tables

SameColumnList(a, b) ==
    Len(a) = Len(b) /\ \A c \in 1..Len(a) : a[c].name = b[c].name

RowsOfTable(a) == IF a = <<>> THEN 0 ELSE Len(a[1].cells)

\* the columns that count as numeric
NumericNames(a) ==
    numeric_columns(coerce_numeric_columns(read_html_tables(<<a>>)[1]))

\* every cell of the one table is the cell of the other, or both are numbers
OnlyNumericDifferences(a, b) ==
    \A c \in 1..Len(a) : \A r \in 1..Len(a[c].cells) :
        \/ a[c].cells[r] = b[c].cells[r]
        \/ is_numeric_text(a[c].cells[r]) /\ is_numeric_text(b[c].cells[r])

\* what is to be reported of two tables, the kinds of difference in order
Difference(a, b) ==
    IF ~SameColumnList(a, b) THEN {"column mismatch"}
    ELSE IF RowsOfTable(a) # RowsOfTable(b) THEN {"row count mismatch"}
    ELSE IF NumericNames(a) # NumericNames(b) THEN {"column type mismatch"}
    ELSE IF ~OnlyNumericDifferences(a, b)
    THEN {"string content differs", "row order differs"}
    ELSE {}

DifferingTables ==
    {t \in 1..Len(LeftTables) :
        Difference(LeftTables[t], RightTables[t]) # {}}

FirstDiffering ==
    CHOOSE t \in DifferingTables : \A other \in DifferingTables : t <= other

\* C28: compare_html_tables reports structure_match true of two files with
\* as many tables, the same column names and the same row counts whose
\* cells differ in numeric values only; it reports structure_match false
\* of a differing table count, and else of the first table that differs in
\* its column list, its row count, the numeric or text kind of a column,
\* or its string content or row order, the kinds looked for in that order.
C28_NumericDifferencesIgnored ==
    HtmlCompared =>
        LET row == output.rows[1]
        IN  IF Len(LeftTables) # Len(RightTables)
            THEN /\ ~row.structure_match
                 /\ row.summary.kind = "table count mismatch"
            ELSE IF DifferingTables = {}
            THEN row.structure_match
            ELSE /\ ~row.structure_match
                 /\ row.summary.kind = "structure mismatch"
                 /\ row.summary.index = FirstDiffering - 1
                 /\ row.summary.mismatch \in
                        Difference(LeftTables[FirstDiffering],
                                   RightTables[FirstDiffering])

----------------------------------------------------------------------------
(* compare_tables with its arguments exchanged                             *)

\* lines 88-116: the loop over left_columns from a position on
RECURSIVE scan_columns_from(_, _, _, _, _, _, _, _)
scan_columns_from(left_table, right_table, columns, abs, rel, case, spaces, position) ==
    IF position > Len(columns)
    THEN Returned("identical", build_identical_summary(abs, rel, case, spaces))
    ELSE LET mismatch == find_first_column_mismatch(
                             lookup(left_table, columns[position]),
                             lookup(right_table, columns[position]), abs, rel)
         IN  IF mismatch.kind = "raised"
             THEN Raised(mismatch.error, "tolerance")
             ELSE IF mismatch.kind = "none"
             THEN scan_columns_from(left_table, right_table, columns, abs, rel,
                                    case, spaces, position + 1)
             ELSE Returned("structure_differences",
                           [what |-> "value",
                            column |-> columns[position],
                            row_index |-> mismatch.row_index,
                            left_value |-> mismatch.left_value,
                            right_value |-> mismatch.right_value])

\* compare_tables as one function of its arguments
compare_tables(left_table, right_table, abs, rel, case, spaces) ==
    LET left_row_count == get_row_count(left_table, "left")
        right_row_count == get_row_count(right_table, "right")
    IN  IF columns_differ(keys(left_table), keys(right_table))
        THEN Returned("structure_differences",
                      [what |-> "columns", left |-> keys(left_table),
                       right |-> keys(right_table)])
        ELSE IF left_row_count.raised
        THEN Raised(left_row_count.error, left_row_count.label)
        ELSE IF right_row_count.raised
        THEN Raised(right_row_count.error, right_row_count.label)
        ELSE IF left_row_count.count # right_row_count.count
        THEN Returned("structure_differences",
                      [what |-> "row_count", left |-> left_row_count.count,
                       right |-> right_row_count.count])
        ELSE scan_columns_from(
                 normalize_string_columns(left_table, case, spaces),
                 normalize_string_columns(right_table, case, spaces),
                 keys(left_table), abs, rel, case, spaces, 1)

\* what compare_tables returns for the two tables the other way round
Exchanged ==
    compare_tables(right, left, abs_tol, rel_tol, ignore_case, ignore_spaces)

\* C29: under non-negative tolerances compare_tables ends the same way for
\* (L, R) and for (R, L): both calls raise or both return, they return the
\* same category, and when both report a value mismatch they name the same
\* column and the same row index.
C29_CompareSymmetric ==
    (Done /\ NonNegativeTolerances) =>
        /\ result.kind = Exchanged.kind
        /\ result.kind = "returned" =>
              /\ result.category = Exchanged.category
              /\ result.summary.what = Exchanged.summary.what
              /\ result.summary.what = "value" =>
                    /\ result.summary.column = Exchanged.summary.column
                    /\ result.summary.row_index = Exchanged.summary.row_index

\* a value mismatch in the second row of the second column, reported in
\* both directions with the two values exchanged
C29_Witness ==
    /\ Done
    /\ NonNegativeTolerances
    /\ ValueMismatch
    /\ result.summary.column = "B"
    /\ result.summary.row_index = 1
    /\ Exchanged.summary.what = "value"
    /\ Exchanged.summary.left_value = result.summary.right_value
    /\ Exchanged.summary.left_value # result.summary.left_value

\* a null against a number, reported as a mismatch in both directions
C29_NullWitness ==
    /\ Done
    /\ NonNegativeTolerances
    /\ ValueMismatch
    /\ IsNone(result.summary.left_value)
    /\ IsNumber(result.summary.right_value)
    /\ Exchanged.kind = "returned"
    /\ Exchanged.category = "structure_differences"

----------------------------------------------------------------------------
\* C30: no row the body normalizer returns has the cell texts of the top or
\* of the sub header row, rows whose first cell was filled in from the row
\* above under a vertical merge included.
C30_NoHeaderRowReturned ==
    (BodyNormalized /\ load_result.kind # "raised") =>
        \A k \in 1..Len(body_rows) : body_rows[k] \notin {header_top, header_sub}

=============================================================================
